---------------------------- MODULE Spec2Model ----------------------------
(***************************************************************************)
(* Model of the slither runtime's Promise intrinsics                       *)
(* (src/src/intrinsics/promise.rs) and of the net-server async-iterator    *)
(* bridge (src/src/intrinsics/net_server_prototype.rs).                    *)
(*                                                                         *)
(* Objects are numbered in allocation order.  A promise is an index into   *)
(* `promises`, a resolve/reject pair an index into `fns` (the two builtin  *)
(* functions of a pair share the "already resolved" latch object).         *)
(***************************************************************************)
EXTENDS Integers, Sequences, FiniteSets, TLC

\* Bounds of the model.
MaxPromises == 3
MaxFns == 4
MaxStack == 1
MaxHostPromises == 4
MaxHostFns == 5
MaxMailbox == 2
MaxExecutorCalls == 2
MaxItems == 2
MaxJobs == 2
MaxCapabilities == 2
MaxDepth == 3

VARIABLES
    promises,   \* the promise objects, by identity
    fns,        \* the resolve/reject pairs made by create_resolving_functions
    jobs,       \* the agent's job queue
    stack,      \* Promise constructors whose executor is still running
    nreact,     \* number of reaction objects allocated so far
    enqLog,     \* every job ever enqueued, in enqueue order
    seenLog,    \* per job enqueued: its promise's slots at the moment of the enqueue
    execLog,    \* every job ever executed, in execution order
    regLog,     \* per promise: the reactions registered while it was pending
    adopted,    \* per promise: the promise its resolve last took as a thenable
    last,       \* the operation performed by the latest step, with its result
    panicked,   \* an unreachable!() was executed
    unhandled,  \* number of job errors handed to the host hook
    queue,      \* endpoint slot "net server queue"
    buffer,     \* endpoint slot "net server buffer"
    registered, \* the endpoint's token is in agent.mio_map
    closed,     \* close() has returned normally on the endpoint
    source,     \* the program handed to the parser, as its statements
    parsed,     \* what Parser::parse returned for it
    nextLog,    \* promises returned by next(), in call order
    delivLog,   \* outcomes delivered by the producer, in arrival order
    mailbox,    \* reactor events posted to the interpreter thread, not yet handled
    host,       \* the host loop: "run", or "blocked" on the reactor
    handled,    \* per handled event: jobs enqueued at its arrival, run at its handling
    capExec     \* a capability executor: its two slots and the calls made of it

vars == <<promises, fns, jobs, stack, nreact, enqLog, seenLog, execLog, regLog, adopted,
          last, panicked, unhandled, queue, buffer, registered, closed, source, parsed, nextLog, delivLog,
          mailbox, host, handled, capExec>>

promiseVars == <<promises, fns, jobs, stack, nreact, enqLog, seenLog, execLog, regLog,
                 adopted, panicked, unhandled>>
hostVars == <<mailbox, host, handled, capExec>>
netVars == <<queue, buffer, registered, closed, source, parsed, nextLog, delivLog, mailbox, host, handled,
             capExec>>

-----------------------------------------------------------------------------
(* Values *)

Null == [t |-> "null", n |-> 0, msg |-> ""]
Num(i) == [t |-> "number", n |-> i, msg |-> ""]
PromiseRef(p) == [t |-> "promise", n |-> p, msg |-> ""]
new_error(m) == [t |-> "error", n |-> 0, msg |-> m]

SelfResolutionError == new_error("cannot resolve a promise with itself")
ExecutorError == new_error("executor raised")
ThenError == new_error("then raised")
HandlerError == new_error("handler raised")
DeliveryError == new_error("accept failed")
ConstructorError == new_error("constructor getter raised")

\* The intrinsic Promise constructor object made by create_promise.
PromiseCtor == [t |-> "function", n |-> 0, msg |-> "Promise"]

\* A script object with a callable `then` property and no promise-state slot.
ThenableObject == [t |-> "object", n |-> 0, msg |-> "then"]

\* Value::type_of.
type_of(v) == IF v.t \in {"promise", "error"} THEN "object" ELSE v.t

\* Value::has_slot("promise state"): only promise objects carry the slot.
has_promise_state(v) == v.t = "promise"

\* A script function value.
ScriptFunction == [t |-> "function", n |-> 0, msg |-> "script"]

Ok(v) == [ok |-> TRUE, val |-> v]
Err(v) == [ok |-> FALSE, val |-> v]

\* What a call that aborted the program has for a result: none.
NoReturn == [ok |-> FALSE, val |-> [t |-> "none", n |-> 0, msg |-> "aborted"]]

\* A reaction list slot: Value::List(items) or Value::Null.
new_list == [tag |-> "List", items |-> <<>>]
NullSlot == [tag |-> "Null", items |-> <<>>]

\* A callable: a builtin resolving function of pair k, or a script function
\* described by what it does when called; "null" is Value::Null.
NullFn == [h |-> "null", k |-> 0, val |-> Null]
ResolveFn(k) == [h |-> "resolve", k |-> k, val |-> Null]
RejectFn(k) == [h |-> "reject", k |-> k, val |-> Null]
IdFn == [h |-> "id", k |-> 0, val |-> Null]
RetFn(v) == [h |-> "ret", k |-> 0, val |-> v]
ThrowFn(v) == [h |-> "throw", k |-> 0, val |-> v]

\* What reading and calling a promise's `then` property does.
ThenKinds == {"intrinsic", "getThrows", "callThrows", "callKeeps"}

\* The value of v, computed once, handed to F.
With(v, F(_)) == CHOOSE r \in {F(x) : x \in {v}} : TRUE

\* The state the intrinsics read and write, as one record; `calls` collects
\* the calls a reaction job makes of its handler and of its capability.
S == [promises |-> promises, fns |-> fns, jobs |-> jobs, nreact |-> nreact,
      enqLog |-> enqLog, seenLog |-> seenLog, regLog |-> regLog, adopted |-> adopted,
      panicked |-> panicked, calls |-> <<>>, ret |-> Ok(Null)]


-----------------------------------------------------------------------------
(* The job queue (Agent::enqueue_job) *)

\* What an observer reading the slots of the promise a reaction was given to
\* sees at this moment; a reaction handed to the queue from elsewhere has no
\* such promise (of = 0).
Seen(s, reaction) ==
    IF reaction.of = 0
    THEN [of |-> 0, state |-> "none", result |-> Null,
          fulfillReactions |-> NullSlot, rejectReactions |-> NullSlot]
    ELSE [of |-> reaction.of,
          state |-> s.promises[reaction.of].state,
          result |-> s.promises[reaction.of].result,
          fulfillReactions |-> s.promises[reaction.of].fulfillReactions,
          rejectReactions |-> s.promises[reaction.of].rejectReactions]

\* enqueue pushing the job at the head of the queue.
enqueue_job_at_head(s, reaction, argument) ==
    LET job == [reaction |-> reaction, argument |-> argument]
    IN [s EXCEPT !.jobs = <<job>> \o @, !.enqLog = Append(@, job),
                 !.seenLog = Append(@, Seen(s, reaction))]

\* enqueue dropping a job when the queue holds one with the same argument.
enqueue_job_dedup(s, reaction, argument) ==
    LET job == [reaction |-> reaction, argument |-> argument]
    IN IF \E i \in 1..Len(s.jobs) : s.jobs[i].argument = argument
       THEN [s EXCEPT !.enqLog = Append(@, job),
                      !.seenLog = Append(@, Seen(s, reaction))]
       ELSE [s EXCEPT !.jobs = Append(@, job), !.enqLog = Append(@, job),
                      !.seenLog = Append(@, Seen(s, reaction))]

enqueue_job(s, reaction, argument) ==
    LET job == [reaction |-> reaction, argument |-> argument]
    IN [s EXCEPT !.jobs = Append(@, job), !.enqLog = Append(@, job),
                 !.seenLog = Append(@, Seen(s, reaction))]

-----------------------------------------------------------------------------
(* promise.rs *)

\* The loop popping the back of the list instead of its front.
RECURSIVE drain_reactions_pop_back(_, _, _)
drain_reactions_pop_back(s, items, argument) ==
    IF items = <<>> THEN s
    ELSE drain_reactions_pop_back(enqueue_job(s, items[Len(items)], argument),
                                  SubSeq(items, 1, Len(items) - 1), argument)

\* The loop of trigger_promise_reactions: pop the front reaction, enqueue its
\* job, until the list is empty.
RECURSIVE drain_reactions(_, _, _)
drain_reactions(s, items, argument) ==
    IF items = <<>> THEN s
    ELSE drain_reactions(enqueue_job(s, Head(items), argument), Tail(items), argument)

trigger_promise_reactions(s, reactions, argument) ==
    IF reactions.tag = "List"
    THEN [drain_reactions(s, reactions.items, argument) EXCEPT !.ret = Ok(Null)]
    ELSE [s EXCEPT !.panicked = TRUE, !.ret = Ok(Null)]

\* fulfill_promise enqueueing the reactions of both sides.
fulfill_promise_triggers_both(s, p, value) ==
    LET reactions == s.promises[p].fulfillReactions
        unused == s.promises[p].rejectReactions
        s1 == [s EXCEPT !.promises[p].result = value,
                        !.promises[p].state = "fulfilled",
                        !.promises[p].fulfillReactions = NullSlot,
                        !.promises[p].rejectReactions = NullSlot]
    IN With(trigger_promise_reactions(s1, reactions, value), LAMBDA s2 :
            trigger_promise_reactions(s2, unused, value))

\* fulfill_promise leaving the unused side's list in place.
fulfill_promise_keeps_reject_list(s, p, value) ==
    LET reactions == s.promises[p].fulfillReactions
        s1 == [s EXCEPT !.promises[p].result = value,
                        !.promises[p].state = "fulfilled",
                        !.promises[p].fulfillReactions = NullSlot]
    IN trigger_promise_reactions(s1, reactions, value)

fulfill_promise(s, p, value) ==
    LET reactions == s.promises[p].fulfillReactions
        s1 == [s EXCEPT !.promises[p].result = value,
                        !.promises[p].state = "fulfilled",
                        !.promises[p].fulfillReactions = NullSlot,
                        !.promises[p].rejectReactions = NullSlot]
    IN trigger_promise_reactions(s1, reactions, value)

\* reject_promise enqueueing the jobs before it writes the slots.
reject_promise_triggers_first(s, p, reason) ==
    With(trigger_promise_reactions(s, s.promises[p].rejectReactions, reason), LAMBDA s1 :
         [s1 EXCEPT !.promises[p].result = reason,
                    !.promises[p].state = "rejected",
                    !.promises[p].fulfillReactions = NullSlot,
                    !.promises[p].rejectReactions = NullSlot])

reject_promise(s, p, reason) ==
    LET reactions == s.promises[p].rejectReactions
        s1 == [s EXCEPT !.promises[p].result = reason,
                        !.promises[p].state = "rejected",
                        !.promises[p].fulfillReactions = NullSlot,
                        !.promises[p].rejectReactions = NullSlot]
    IN trigger_promise_reactions(s1, reactions, reason)

\* A fresh pair for promise p with its own latch; the pair's index is
\* Len(fns) of the result.  `held` records whether script code is handed the
\* two functions.
create_resolving_functions(s, p, held) ==
    [s EXCEPT !.fns = Append(@, [promise |-> p, resolved |-> FALSE, held |-> held])]

\* The latch test never finding the latch set.
already_resolved_never(s, k) == FALSE

\* The latch test and set that open both resolving functions.
already_resolved(s, k) == s.fns[k].resolved

\* The latch left unset by the call that passes it.
set_resolved_skips(s, k) == s

set_resolved(s, k) == [s EXCEPT !.fns[k].resolved = TRUE]

\* The reject function taking the outcome of a settled promise given as the
\* reason.
promise_reject_function_unwraps(s, k, resolution) ==
    IF already_resolved(s, k)
    THEN [s EXCEPT !.ret = Ok(Null)]
    ELSE reject_promise(set_resolved(s, k), s.fns[k].promise,
                        IF has_promise_state(resolution)
                           /\ s.promises[resolution.n].state # "pending"
                        THEN s.promises[resolution.n].result
                        ELSE resolution)

\* The reject function without its latch test.
promise_reject_function_no_latch(s, k, resolution) ==
    reject_promise(set_resolved(s, k), s.fns[k].promise, resolution)

promise_reject_function(s, k, resolution) ==
    IF already_resolved(s, k)
    THEN [s EXCEPT !.ret = Ok(Null)]
    ELSE reject_promise(set_resolved(s, k), s.fns[k].promise, resolution)

\* The lines 164-167 of the constructor: a fresh pending promise object.
new_promise_object(s) ==
    [s EXCEPT !.promises = Append(@,
        [state |-> "pending", result |-> Null,
         fulfillReactions |-> new_list, rejectReactions |-> new_list,
         resolve |-> NullFn, reject |-> NullFn,
         thenReads |-> 0, thenCalls |-> 0]),
              !.regLog = Append(@, [fulfill |-> <<>>, reject |-> <<>>]),
              !.adopted = Append(@, [q |-> 0, kind |-> "none"])]

\* The constructor allocating whatever its argument is.
promise_no_type_check(s, executor) ==
    With(new_promise_object(s), LAMBDA s1 :
         [create_resolving_functions(s1, Len(s1.promises), TRUE)
             EXCEPT !.ret = Ok(Null)])

\* The constructor up to the call of the executor (lines 157-169): the type
\* test on the executor, then the promise object and its pair.
promise(s, executor) ==
    IF type_of(executor) # "function"
    THEN [s EXCEPT !.ret = Err(new_error("executor must be a function"))]
    ELSE With(new_promise_object(s), LAMBDA s1 :
              [create_resolving_functions(s1, Len(s1.promises), TRUE)
                  EXCEPT !.ret = Ok(Null)])

\* The constructor called with an argument list (lines 157-169): args[0] on
\* line 158 indexes the list, which aborts the program when the list is empty.
promise_args(s, args) ==
    IF args = <<>>
    THEN [s EXCEPT !.panicked = TRUE, !.ret = NoReturn]
    ELSE promise(s, args[1])

\* The end of the constructor rejecting the promise without going through
\* the pair's reject function.
promise_executor_result_direct(s, p, k, result) ==
    IF ~result.ok
    THEN [reject_promise(set_resolved(s, k), p, result.val)
             EXCEPT !.ret = Ok(PromiseRef(p))]
    ELSE [s EXCEPT !.ret = Ok(PromiseRef(p))]

\* The end of the constructor (lines 171-177), given what the executor call
\* returned: an executor error is passed to the pair's reject function.
promise_executor_result(s, p, k, result) ==
    IF ~result.ok
    THEN With(promise_reject_function(s, k, result.val),
              LAMBDA s1 : IF s1.ret.ok THEN [s1 EXCEPT !.ret = Ok(PromiseRef(p))]
                          ELSE s1)
    ELSE [s EXCEPT !.ret = Ok(PromiseRef(p))]

\* The slots the code has set on a promise object: the constructor's three
\* (lines 165-167), the result once settled (lines 64, 73), and the resolve
\* and reject slots new_promise_capability adds (lines 206-207).
slot_names(pr) ==
    {"promise state", "fulfill reactions", "reject reactions"}
        \cup (IF pr.state # "pending" THEN {"result"} ELSE {})
        \cup (IF pr.resolve # NullFn \/ pr.reject # NullFn
              THEN {"resolve", "reject"} ELSE {})

\* The capturing executor storing the two callables in each other's slot.
get_capabilities_executor_swaps(executor, resolve, reject) ==
    IF executor.resolve # NullFn \/ executor.reject # NullFn
    THEN [executor |-> executor, ret |-> Err(new_error("type error"))]
    ELSE [executor |-> [resolve |-> reject, reject |-> resolve], ret |-> Ok(Null)]

\* The capturing executor testing its resolve slot only.
get_capabilities_executor_tests_resolve_only(executor, resolve, reject) ==
    IF executor.resolve # NullFn
    THEN [executor |-> executor, ret |-> Err(new_error("type error"))]
    ELSE [executor |-> [resolve |-> resolve, reject |-> reject], ret |-> Ok(Null)]

\* get_capabilities_executor on an executor object with slots resolve, reject.
get_capabilities_executor(executor, resolve, reject) ==
    IF executor.resolve # NullFn \/ executor.reject # NullFn
    THEN [executor |-> executor, ret |-> Err(new_error("type error"))]
    ELSE [executor |-> [resolve |-> resolve, reject |-> reject], ret |-> Ok(Null)]

\* new_promise_capability(agent, agent.intrinsics.promise): the constructor
\* runs the capturing executor synchronously; the returned promise carries the
\* two functions in its resolve and reject slots.
new_promise_capability(s) ==
    With(new_promise_object(s), LAMBDA s1 :
    With(create_resolving_functions(s1, Len(s1.promises), FALSE), LAMBDA s2 :
        LET p == Len(s2.promises)
            k == Len(s2.fns)
            e0 == [resolve |-> NullFn, reject |-> NullFn]
            called == get_capabilities_executor(e0, ResolveFn(k), RejectFn(k))
        IN With(promise_executor_result(s2, p, k, called.ret), LAMBDA s3 :
                [s3 EXCEPT !.promises[p].resolve = called.executor.resolve,
                           !.promises[p].reject = called.executor.reject])))

\* Promise.prototype.then on promise q: a derived capability and one reaction
\* per side; registered while q is pending, enqueued at once when q is settled.
promise_proto_then(s, q, on_fulfilled, on_rejected) ==
    With(new_promise_capability(s), LAMBDA s1 :
        LET d == Len(s1.promises)
            fr == [id |-> s1.nreact + 1, promise |-> d, kind |-> "fulfill",
                   handler |-> on_fulfilled, of |-> q]
            rr == [id |-> s1.nreact + 2, promise |-> d, kind |-> "reject",
                   handler |-> on_rejected, of |-> q]
            s2 == [s1 EXCEPT !.nreact = @ + 2]
            st == s1.promises[q].state
            s3 == IF st = "pending"
                  THEN [s2 EXCEPT !.promises[q].fulfillReactions.items = Append(@, fr),
                                  !.promises[q].rejectReactions.items = Append(@, rr),
                                  !.regLog[q].fulfill = Append(@, fr),
                                  !.regLog[q].reject = Append(@, rr)]
                  ELSE IF st = "fulfilled"
                  THEN enqueue_job(s2, fr, s1.promises[q].result)
                  ELSE enqueue_job(s2, rr, s1.promises[q].result)
        IN [s3 EXCEPT !.ret = Ok(PromiseRef(d))])

\* resolution.get("then"): the property read, which a getter can make throw.
\* `kind` is what the `then` property of q does on this occasion.
get_then(s, q, kind) ==
    [s EXCEPT !.promises[q].thenReads = @ + 1,
              !.ret = IF kind = "getThrows" THEN Err(ThenError) ELSE Ok(Null)]

\* then.call(resolution, [resolve, reject]) with the functions of pair k.
call_then(s, q, k, kind) ==
    LET s1 == [s EXCEPT !.promises[q].thenCalls = @ + 1]
    IN IF kind = "intrinsic"
       THEN promise_proto_then(s1, q, ResolveFn(k), RejectFn(k))
       ELSE IF kind = "callThrows"
       THEN [s1 EXCEPT !.ret = Err(ThenError)]
       ELSE [s1 EXCEPT !.fns[k].held = TRUE, !.ret = Ok(Null)]

\* The thenable branch taken for a plain value: the promise is the result.
resolve_thenable_fulfills(s, p, q, kind) == fulfill_promise(s, p, PromiseRef(q))

\* The thenable branch of promise_resolve_function (lines 122-132).
resolve_thenable(s, p, q, kind) ==
    With(create_resolving_functions([s EXCEPT !.adopted[p] = [q |-> q, kind |-> kind]],
                                    p, FALSE), LAMBDA s1 :
    With(get_then(s1, q, kind), LAMBDA got :
        IF ~got.ret.ok
        THEN got
        ELSE With(call_then(got, q, Len(s1.fns), kind), LAMBDA called :
                  IF called.ret.ok
                  THEN called
                  ELSE promise_reject_function(called, Len(s1.fns), called.ret.val))))

\* The resolve function without its latch test.
promise_resolve_function_no_latch(s, k, resolution, kind) ==
    LET s1 == set_resolved(s, k)
        p == s.fns[k].promise
    IN IF resolution = PromiseRef(p)
       THEN reject_promise(s1, p, SelfResolutionError)
       ELSE IF has_promise_state(resolution)
       THEN resolve_thenable(s1, p, resolution.n, kind)
       ELSE fulfill_promise(s1, p, resolution)

\* The resolve function without the test for its own promise.
promise_resolve_function_no_self_test(s, k, resolution, kind) ==
    IF already_resolved(s, k)
    THEN [s EXCEPT !.ret = Ok(Null)]
    ELSE IF has_promise_state(resolution)
    THEN resolve_thenable(set_resolved(s, k), s.fns[k].promise, resolution.n, kind)
    ELSE fulfill_promise(set_resolved(s, k), s.fns[k].promise, resolution)

\* The resolve function taking any object with a callable `then` as a
\* thenable: the object's then is read and called with a fresh pair.
promise_resolve_function_duck_typed(s, k, resolution, kind) ==
    IF already_resolved(s, k)
    THEN [s EXCEPT !.ret = Ok(Null)]
    ELSE LET s1 == set_resolved(s, k)
             p == s.fns[k].promise
         IN IF resolution = PromiseRef(p)
            THEN reject_promise(s1, p, SelfResolutionError)
            ELSE IF has_promise_state(resolution)
            THEN resolve_thenable(s1, p, resolution.n, kind)
            ELSE IF resolution = ThenableObject
            THEN [create_resolving_functions(
                      [s1 EXCEPT !.adopted[p] = [q |-> 0, kind |-> "callKeeps"]],
                      p, TRUE)
                     EXCEPT !.ret = Ok(Null)]
            ELSE fulfill_promise(s1, p, resolution)

promise_resolve_function(s, k, resolution, kind) ==
    IF already_resolved(s, k)
    THEN [s EXCEPT !.ret = Ok(Null)]
    ELSE LET s1 == set_resolved(s, k)
             p == s.fns[k].promise
         IN IF resolution = PromiseRef(p)
            THEN reject_promise(s1, p, SelfResolutionError)
            ELSE IF has_promise_state(resolution)
            THEN resolve_thenable(s1, p, resolution.n, kind)
            ELSE fulfill_promise(s1, p, resolution)

\* Value::call on a callable with one argument.
call_function(s, f, argument, kind) ==
    IF f.h = "resolve" THEN promise_resolve_function(s, f.k, argument, kind)
    ELSE IF f.h = "reject" THEN promise_reject_function(s, f.k, argument)
    ELSE IF f.h = "id" THEN [s EXCEPT !.ret = Ok(argument)]
    ELSE IF f.h = "ret" THEN [s EXCEPT !.ret = Ok(f.val)]
    ELSE [s EXCEPT !.ret = Err(f.val)]

\* A call the job makes, recorded with its argument and what it returned.
Called(s, f, argument, kind) ==
    With(call_function(s, f, argument, kind), LAMBDA s1 :
         [s1 EXCEPT !.calls = Append(@, [f |-> f, arg |-> argument, ret |-> s1.ret])])

\* The reaction job handing a sink's handler error back to the job queue.
promise_reaction_job_sink_propagates(s, reaction, argument, kind) ==
    With(IF reaction.handler = NullFn
         THEN [s EXCEPT !.ret = IF reaction.kind = "fulfill"
                                THEN Ok(argument) ELSE Err(argument)]
         ELSE Called(s, reaction.handler, argument, kind),
         LAMBDA s1 :
        LET handler_result == s1.ret
        IN IF reaction.promise # 0
           THEN With(IF handler_result.ok
                     THEN Called(s1, s1.promises[reaction.promise].resolve,
                                 handler_result.val, kind)
                     ELSE Called(s1, s1.promises[reaction.promise].reject,
                                 handler_result.val, kind),
                     LAMBDA s2 : IF s2.ret.ok THEN [s2 EXCEPT !.ret = Ok(Null)]
                                 ELSE s2)
           ELSE IF handler_result.ok THEN [s1 EXCEPT !.ret = Ok(Null)] ELSE s1)

\* The reaction job passing a value through a Null handler as success
\* whatever the reaction's kind.
promise_reaction_job_ignores_kind(s, reaction, argument, kind) ==
    With(IF reaction.handler = NullFn
         THEN [s EXCEPT !.ret = Ok(argument)]
         ELSE Called(s, reaction.handler, argument, kind),
         LAMBDA s1 :
        LET handler_result == s1.ret
            f == IF handler_result.ok THEN s1.promises[reaction.promise].resolve
                 ELSE s1.promises[reaction.promise].reject
        IN IF reaction.promise # 0
           THEN With(Called(s1, f, handler_result.val, kind),
                     LAMBDA s2 : IF s2.ret.ok THEN [s2 EXCEPT !.ret = Ok(Null)]
                                 ELSE s2)
           ELSE [s1 EXCEPT !.ret = Ok(Null)])

promise_reaction_job(s, reaction, argument, kind) ==
    With(IF reaction.handler = NullFn
         THEN [s EXCEPT !.ret = IF reaction.kind = "fulfill"
                                THEN Ok(argument) ELSE Err(argument)]
         ELSE Called(s, reaction.handler, argument, kind),
         LAMBDA s1 :
        LET handler_result == s1.ret
        IN IF reaction.promise # 0
           THEN With(IF handler_result.ok
                     THEN Called(s1, s1.promises[reaction.promise].resolve,
                                 handler_result.val, kind)
                     ELSE Called(s1, s1.promises[reaction.promise].reject,
                                 handler_result.val, kind),
                     LAMBDA s2 : IF s2.ret.ok THEN [s2 EXCEPT !.ret = Ok(Null)]
                                 ELSE s2)
           ELSE [s1 EXCEPT !.ret = Ok(Null)])

\* Promise.resolve(x) with receiver c (lines 212-233).  `ctor` is what reading
\* x.constructor gives on this occasion, `kind` what x.then does.
promise_resolve(s, c, x, ctor, kind) ==
    IF type_of(c) # "object" /\ type_of(c) # "function"
    THEN [s EXCEPT !.ret = Err(new_error("this must be an object"))]
    ELSE IF has_promise_state(x) /\ ~ctor.ok
    THEN [s EXCEPT !.ret = ctor]
    ELSE IF has_promise_state(x) /\ ctor.val = c
    THEN [s EXCEPT !.ret = Ok(x)]
    ELSE With(new_promise_capability(s), LAMBDA s1 :
              IF ~s1.ret.ok
              THEN s1
              ELSE With(call_function(s1, s1.promises[s1.ret.val.n].resolve, x, kind),
                        LAMBDA s2 :
                        IF s2.ret.ok THEN [s2 EXCEPT !.ret = s1.ret] ELSE s2))

\* Promise.reject(x) with receiver c (lines 235-246).
promise_reject(s, c, x) ==
    IF type_of(c) # "object" /\ type_of(c) # "function"
    THEN [s EXCEPT !.ret = Err(new_error("this must be an object"))]
    ELSE With(new_promise_capability(s), LAMBDA s1 :
              IF ~s1.ret.ok
              THEN s1
              ELSE With(call_function(s1, s1.promises[s1.ret.val.n].reject, x,
                                      "intrinsic"), LAMBDA s2 :
                        IF s2.ret.ok THEN [s2 EXCEPT !.ret = s1.ret] ELSE s2))

-----------------------------------------------------------------------------
(* net_server_prototype.rs: one endpoint, its two list slots passed as q, b *)

\* next() returning the buffer's head without removing it.
next_leaves_head(s, q, b) ==
    IF b # <<>>
    THEN [s |-> [s EXCEPT !.ret = Ok(PromiseRef(Head(b)))], queue |-> q, buffer |-> b]
    ELSE With(new_promise_capability(s), LAMBDA s1 :
              [s |-> s1, queue |-> Append(q, s1.ret.val.n), buffer |-> b])

\* next() never looking at the buffer.
next_ignores_buffer(s, q, b) ==
    With(new_promise_capability(s), LAMBDA s1 :
         [s |-> s1, queue |-> Append(q, s1.ret.val.n), buffer |-> b])

\* next() popping the back of the buffer.
next_pops_back(s, q, b) ==
    IF b # <<>>
    THEN [s |-> [s EXCEPT !.ret = Ok(PromiseRef(b[Len(b)]))],
          queue |-> q, buffer |-> SubSeq(b, 1, Len(b) - 1)]
    ELSE With(new_promise_capability(s), LAMBDA s1 :
              [s |-> s1, queue |-> Append(q, s1.ret.val.n), buffer |-> b])

\* next() on the endpoint: the buffered head if there is one, else a fresh
\* capability pushed on the queue.
next(s, q, b) ==
    IF b # <<>>
    THEN [s |-> [s EXCEPT !.ret = Ok(PromiseRef(Head(b)))],
          queue |-> q, buffer |-> Tail(b)]
    ELSE With(new_promise_capability(s), LAMBDA s1 :
              IF s1.ret.ok
              THEN [s |-> s1, queue |-> Append(q, s1.ret.val.n), buffer |-> b]
              ELSE [s |-> s1, queue |-> q, buffer |-> b])

\* close() leaving the token in the map.
close_keeps_registration(reg) == reg

\* close() inserting the token when it is absent.
close_toggles(reg) == ~reg

\* close() on the endpoint: agent.mio_map.remove(token).
close(reg) == FALSE

\* The producer settling the newest waiting capability instead of the oldest.
deliver_settles_newest(s, q, b, outcome) ==
    IF q # <<>>
    THEN LET c == q[Len(q)]
             f == IF outcome.ok THEN s.promises[c].resolve ELSE s.promises[c].reject
         IN [s |-> call_function(s, f, outcome.val, "intrinsic"),
             queue |-> SubSeq(q, 1, Len(q) - 1), buffer |-> b]
    ELSE With(new_promise_capability(s), LAMBDA s1 :
              LET c == Len(s1.promises)
                  f == IF outcome.ok THEN s1.promises[c].resolve
                       ELSE s1.promises[c].reject
              IN [s |-> call_function(s1, f, outcome.val, "intrinsic"),
                  queue |-> q, buffer |-> Append(b, c)])

\* The producer side, run when the reactor reports an event for the
\* endpoint's token: settle the oldest waiting capability, or buffer a
\* settled one.
deliver(s, q, b, outcome) ==
    IF q # <<>>
    THEN LET c == Head(q)
             f == IF outcome.ok THEN s.promises[c].resolve ELSE s.promises[c].reject
         IN [s |-> call_function(s, f, outcome.val, "intrinsic"),
             queue |-> Tail(q), buffer |-> b]
    ELSE With(new_promise_capability(s), LAMBDA s1 :
              LET c == Len(s1.promises)
                  f == IF outcome.ok THEN s1.promises[c].resolve
                       ELSE s1.promises[c].reject
              IN [s |-> call_function(s1, f, outcome.val, "intrinsic"),
                  queue |-> q, buffer |-> Append(b, c)])

\* The receivers next() and close() are called on: an endpoint carries the
\* three slots, a plain object carries none of them.
Endpoint == [slots |-> {"net server queue", "net server buffer", "net server token"}]
PlainObject == [slots |-> {}]

has_slot(this, name) == name \in this.slots

InvalidReceiver == new_error("invalid receiver")

\* next() running its body whatever the receiver is.
next_this_unchecked(s, this, q, b) == next(s, q, b)

\* next() from its entry: the receiver test, then the body.
next_this(s, this, q, b) ==
    IF ~has_slot(this, "net server queue")
    THEN [s |-> [s EXCEPT !.ret = Err(InvalidReceiver)], queue |-> q, buffer |-> b]
    ELSE next(s, q, b)

\* close() rejecting the capabilities still waiting in the queue.
RECURSIVE reject_all(_, _)
reject_all(s, q) ==
    IF q = <<>> THEN s
    ELSE With(call_function(s, s.promises[Head(q)].reject, InvalidReceiver,
                            "intrinsic"), LAMBDA s1 : reject_all(s1, Tail(q)))

close_this_rejects_pending(s, this, q, b, reg) ==
    IF ~has_slot(this, "net server token")
    THEN [s |-> [s EXCEPT !.ret = Err(InvalidReceiver)], queue |-> q, buffer |-> b,
          registered |-> reg]
    ELSE [s |-> [reject_all(s, q) EXCEPT !.ret = Ok(Null)], queue |-> <<>>,
          buffer |-> b, registered |-> close(reg)]

\* close() from its entry: the receiver test, then the removal of the token.
close_this(s, this, q, b, reg) ==
    IF ~has_slot(this, "net server token")
    THEN [s |-> [s EXCEPT !.ret = Err(InvalidReceiver)], queue |-> q, buffer |-> b,
          registered |-> reg]
    ELSE [s |-> [s EXCEPT !.ret = Ok(Null)], queue |-> q, buffer |-> b,
          registered |-> close(reg)]

-----------------------------------------------------------------------------
(* parser.rs: tokens, nodes and number literals *)

\* A token of the lexer: its kind, with the text of an identifier, string or
\* operator and the value of a number.
Token(k, s, n) == [k |-> k, s |-> s, n |-> n]
T(k) == Token(k, "", 0)
TOperator(op) == Token("Operator", op, 0)
TNumber(n) == Token("NumberLiteral", "", n)
TString(s) == Token("StringLiteral", s, 0)
TIdentifier(s) == Token("Identifier", s, 0)

\* lexer.peek() at the end of the input.
NoToken == T("None")

\* An f64 as a fraction n/d in lowest terms; d = 0 is NaN (n = 0) or an
\* infinity (n = 1, n = -1).  With the literals 0, 1 and 2 the finite values
\* folding can make are small dyadic fractions, which f64 holds exactly.
F64(n, d) == [n |-> n, d |-> d]
NaN == F64(0, 0)
Abs(i) == IF i < 0 THEN 0 - i ELSE i
Sign(i) == IF i < 0 THEN 0 - 1 ELSE IF i > 0 THEN 1 ELSE 0

RECURSIVE Gcd(_, _)
Gcd(a, b) == IF b = 0 THEN a ELSE Gcd(b, a % b)

\* n/d with d # 0, in lowest terms and with a positive denominator.
Ratio(n, d) ==
    LET g == Gcd(Abs(n), Abs(d))
    IN  F64((Sign(d) * n) \div g, Abs(d) \div g)

IsNaN(x) == x.d = 0 /\ x.n = 0
IsInf(x) == x.d = 0 /\ x.n # 0

f64_neg(x) == F64(0 - x.n, x.d)

f64_add(x, y) ==
    IF IsNaN(x) \/ IsNaN(y) THEN NaN
    ELSE IF IsInf(x) THEN (IF IsInf(y) /\ y.n # x.n THEN NaN ELSE x)
    ELSE IF IsInf(y) THEN y
    ELSE Ratio(x.n * y.d + y.n * x.d, x.d * y.d)

f64_sub(x, y) == f64_add(x, f64_neg(y))

f64_mul(x, y) ==
    IF IsNaN(x) \/ IsNaN(y) THEN NaN
    ELSE IF IsInf(x) \/ IsInf(y)
         THEN (IF x.n = 0 \/ y.n = 0 THEN NaN ELSE F64(Sign(x.n) * Sign(y.n), 0))
    ELSE Ratio(x.n * y.n, x.d * y.d)

f64_div(x, y) ==
    IF IsNaN(x) \/ IsNaN(y) THEN NaN
    ELSE IF IsInf(x) THEN (IF IsInf(y) THEN NaN
                           ELSE F64(x.n * (IF y.n < 0 THEN 0 - 1 ELSE 1), 0))
    ELSE IF IsInf(y) THEN F64(0, 1)
    ELSE IF y.n = 0 THEN (IF x.n = 0 THEN NaN ELSE F64(Sign(x.n), 0))
    ELSE Ratio(x.n * y.d, x.d * y.n)

\* The integer part of a finite value, rounded towards zero.
Trunc(x) == Sign(x.n) * (Abs(x.n) \div x.d)

\* f64::rem: the remainder has the sign of the dividend.
f64_rem(x, y) ==
    IF IsNaN(x) \/ IsNaN(y) \/ IsInf(x) THEN NaN
    ELSE IF IsInf(y) THEN x
    ELSE IF y.n = 0 THEN NaN
    ELSE f64_sub(x, f64_mul(F64(Trunc(f64_div(x, y)), 1), y))

RECURSIVE IntPow(_, _)
IntPow(b, e) == IF e = 0 THEN 1 ELSE b * IntPow(b, e - 1)

\* f64::powf for an exponent that is a whole number, which is all that the
\* operands of ** can be: they are literals or powers of literals.
f64_powf(x, y) ==
    IF y.d = 1 /\ y.n >= 0 /\ x.d = 1
    THEN F64(IntPow(x.n, y.n), 1)
    ELSE IF y.d = 1 /\ y.n = 0 THEN F64(1, 1)
    ELSE NaN

f64_lt(x, y) ==
    IF IsNaN(x) \/ IsNaN(y) THEN FALSE
    ELSE IF x.d = 0 \/ y.d = 0
         THEN (IF x.d = 0 /\ y.d = 0 THEN x.n < y.n
               ELSE IF x.d = 0 THEN x.n < 0 ELSE y.n > 0)
    ELSE x.n * y.d < y.n * x.d

f64_gt(x, y) == f64_lt(y, x)
f64_le(x, y) == ~IsNaN(x) /\ ~IsNaN(y) /\ ~f64_lt(y, x)
f64_ge(x, y) == f64_le(y, x)

\* A node of the tree: its variant, with the name, text or operator it
\* carries, the value of a number literal, its child nodes in the order of the
\* variant's fields, and for a block its declarations (pairs of a name and
\* whether it may be assigned) and its top flag.
Node(type, s, kids) ==
    [type |-> type, s |-> s, num |-> F64(0, 1), kids |-> kids, decls |-> {},
     top |-> FALSE]

NullLiteral == Node("NullLiteral", "", <<>>)
TrueLiteral == Node("TrueLiteral", "", <<>>)
FalseLiteral == Node("FalseLiteral", "", <<>>)
NumberLiteral(v) == [Node("NumberLiteral", "", <<>>) EXCEPT !.num = v]
StringLiteral(s) == Node("StringLiteral", s, <<>>)
Identifier(name) == Node("Identifier", name, <<>>)
ThisExpression == Node("ThisExpression", "", <<>>)
SymbolLiteral(name) == Node("SymbolLiteral", name, <<>>)
NewExpression(e) == Node("NewExpression", "", <<e>>)
Initializer(name, value) == Node("Initializer", name, <<value>>)
ObjectLiteral(fields) == Node("ObjectLiteral", "", fields)
ObjectInitializer(name, value) == Node("ObjectInitializer", "", <<name, value>>)
ArrayLiteral(items) == Node("ArrayLiteral", "", items)
TupleLiteral(items) == Node("TupleLiteral", "", items)
BlockStatement(nodes, declarations, top) ==
    [Node("BlockStatement", "", nodes) EXCEPT !.decls = declarations, !.top = top]
IfStatement(test, consequent) == Node("IfStatement", "", <<test, consequent>>)
IfElseStatement(test, consequent, alternative) ==
    Node("IfElseStatement", "", <<test, consequent, alternative>>)
WhileStatement(test, body) == Node("WhileStatement", "", <<test, body>>)
ExpressionStatement(e) == Node("ExpressionStatement", "", <<e>>)
MemberExpression(base, property) == Node("MemberExpression", property, <<base>>)
ComputedMemberExpression(base, property) ==
    Node("ComputedMemberExpression", "", <<base, property>>)
CallExpression(callee, arguments) == Node("CallExpression", "", <<callee>> \o arguments)
UnaryExpression(op, x) == Node("UnaryExpression", op, <<x>>)
BinaryExpression(x, op, y) == Node("BinaryExpression", op, <<x, y>>)
ConditionalExpression(test, consequent, alternative) ==
    Node("ConditionalExpression", "", <<test, consequent, alternative>>)
FunctionDeclaration(name, args, body) ==
    Node("FunctionDeclaration", name, Append(args, body))
FunctionExpression(name, args, body) ==
    Node("FunctionExpression", name, Append(args, body))
ParenthesizedExpression(e) == Node("ParenthesizedExpression", "", <<e>>)
ReturnStatement(e) == Node("ReturnStatement", "", <<e>>)
BreakStatement == Node("BreakStatement", "", <<>>)
ContinueStatement == Node("ContinueStatement", "", <<>>)
AwaitExpression(e) == Node("AwaitExpression", "", <<e>>)
LexicalInitialization(name, value) == Node("LexicalInitialization", name, <<value>>)

\* Result<Node, Error> together with the parser it leaves behind.
POk(node, p) == [ok |-> TRUE, err |-> "", node |-> node, list |-> <<>>, p |-> p]
PList(list, p) == [ok |-> TRUE, err |-> "", node |-> NullLiteral, list |-> list, p |-> p]
PErr(e, p) == [ok |-> FALSE, err |-> e, node |-> NullLiteral, list |-> <<>>, p |-> p]

\* What parse returned, without the parser; NotParsed before it has run.
Returned(r) == [ok |-> r.ok, err |-> r.err, node |-> r.node]
NotParsed == [ok |-> FALSE, err |-> "NotParsed", node |-> NullLiteral]

\* Option<Node>.
None == [some |-> FALSE, node |-> NullLiteral]
Some(node) == [some |-> TRUE, node |-> node]

\* `?`: the rest of the function runs on an Ok, an Err is returned as it is.
Try(v, K(_)) == CHOOSE r \in {IF x.ok THEN K(x) ELSE x : x \in {v}} : TRUE

-----------------------------------------------------------------------------
(* parser.rs: the Parser, on the tokens the lexer yields *)

\* The parser's state: the tokens not yet taken from the lexer, lex_stack and
\* scope_bits (the set of the bits that are set).  The statements modelled are
\* blocks, let, const, function, async function, return, break, continue, if,
\* while and expression statements.
NewParser(code) == [toks |-> code, lex |-> <<>>, bits |-> {}]

\* enum ParseScope: the bits of each scope's value.
ParseScope ==
    [TopLevel |-> {1}, Block |-> {2}, Loop |-> {4}, Function |-> {8},
     AsyncFunction |-> {8, 16}, GeneratorFunction |-> {8, 32}]

\* Parser::scope: (scope_bits & scope) == scope.
in_scope(p, s) == ParseScope[s] \subseteq p.bits

\* FunctionKind to the scope of the function's body.
FunctionScope ==
    [Normal |-> "Function", Async |-> "AsyncFunction", Generator |-> "GeneratorFunction"]

Peek(p) == IF p.toks = <<>> THEN NoToken ELSE Head(p.toks)
Advance(p) == IF p.toks = <<>> THEN p ELSE [p EXCEPT !.toks = Tail(@)]

expect(p, token) ==
    IF p.toks = <<>> THEN PErr("UnexpectedEOF", p)
    ELSE IF Head(p.toks) = token THEN POk(NullLiteral, Advance(p))
    ELSE PErr("UnexpectedToken", Advance(p))

\* The keywords parse_identifier takes as a name when allow_keyword is set.
KeywordNames ==
    [Throw |-> "throw", Catch |-> "catch", True |-> "true", False |-> "false",
     Null |-> "null", This |-> "this", Class |-> "class", Finally |-> "finally",
     Function |-> "function", Let |-> "let", Const |-> "const",
     Return |-> "return", While |-> "while", For |-> "for", In |-> "in",
     Break |-> "break", Continue |-> "continue", Try |-> "try", If |-> "if",
     Else |-> "else", New |-> "new", Import |-> "import", Export |-> "export",
     Default |-> "default", From |-> "from", Async |-> "async", Await |-> "await",
     Gen |-> "gen", Yield |-> "yield"]

\* The name comes back as an Identifier node.
parse_identifier(p, allow_keyword) ==
    LET t == Peek(p)
    IN  IF t.k = "Identifier" THEN POk(Identifier(t.s), Advance(p))
        ELSE IF allow_keyword /\ t.k \in DOMAIN KeywordNames
             THEN POk(Identifier(KeywordNames[t.k]), Advance(p))
        ELSE IF allow_keyword /\ t.k = "Operator" /\ t.s = "Typeof"
             THEN POk(Identifier("typeof"), Advance(p))
        ELSE IF allow_keyword /\ t.k = "Operator" /\ t.s = "Void"
             THEN POk(Identifier("void"), Advance(p))
        ELSE PErr("UnexpectedToken", Advance(p))

\* HashMap<String, bool> as the set of its entries.
contains_key(scope, name) == \E e \in scope : e[1] = name
insert(scope, name, flag) == {e \in scope : e[1] # name} \cup {<<name, flag>>}

\* declare entering the name in the outermost scope of the stack.
declare_in_outermost(p, name, flag, node) ==
    LET scope == p.lex[1]
    IN  IF contains_key(scope, name) THEN PErr("DuplicateBinding", p)
        ELSE POk(node, [p EXCEPT !.lex[1] = insert(scope, name, flag)])

\* lex_stack.last_mut().insert(name, flag), refused for a name already there.
declare(p, name, flag, node) ==
    LET scope == p.lex[Len(p.lex)]
    IN  IF contains_key(scope, name) THEN PErr("DuplicateBinding", p)
        ELSE POk(node, [p EXCEPT !.lex[Len(p.lex)] = insert(scope, name, flag)])

\* The operators an assignment refuses a literal, call or unary target for.
AssignmentOperators ==
    {"Assign", "AddAssign", "SubAssign", "MulAssign", "DivAssign", "PowAssign"}
InvalidTargets ==
    {"CallExpression", "UnaryExpression", "NullLiteral", "TrueLiteral",
     "FalseLiteral", "ArrayLiteral", "ObjectLiteral", "NumberLiteral",
     "StringLiteral"}

BothNumbers(left, right) ==
    left.type = "NumberLiteral" /\ right.type = "NumberLiteral"

BoolLiteral(b) == IF b THEN TrueLiteral ELSE FalseLiteral

\* build_binary_expression without the folding of two literals.
build_binary_expression_no_fold(left, op, right) ==
    IF op \in AssignmentOperators /\ left.type \in InvalidTargets
    THEN [ok |-> FALSE, err |-> "UnexpectedToken", node |-> NullLiteral]
    ELSE [ok |-> TRUE, err |-> "", node |-> BinaryExpression(left, op, right)]

\* build_binary_expression: an assignment to something that cannot be
\* assigned is refused, two literals are folded, anything else is a
\* BinaryExpression.  (<< and >> of two numbers fold through crate::num_util,
\* which is not modelled: the lexer's tokens here hold no shift.)
build_binary_expression(left, op, right) ==
    IF op \in AssignmentOperators /\ left.type \in InvalidTargets
    THEN [ok |-> FALSE, err |-> "UnexpectedToken", node |-> NullLiteral]
    ELSE [ok |-> op \notin {"LeftShift", "RightShift"} \/ ~BothNumbers(left, right),
          err |-> IF op \in {"LeftShift", "RightShift"} /\ BothNumbers(left, right)
                  THEN "Unmodelled" ELSE "",
          node |->
            IF op = "Add" /\ BothNumbers(left, right)
                THEN NumberLiteral(f64_add(left.num, right.num))
            ELSE IF op = "Add" /\ left.type = "StringLiteral"
                               /\ right.type = "StringLiteral"
                THEN StringLiteral(left.s \o right.s)
            ELSE IF ~BothNumbers(left, right)
                THEN BinaryExpression(left, op, right)
            ELSE IF op = "Sub" THEN NumberLiteral(f64_sub(left.num, right.num))
            ELSE IF op = "Mul" THEN NumberLiteral(f64_mul(left.num, right.num))
            ELSE IF op = "Div" THEN NumberLiteral(f64_div(left.num, right.num))
            ELSE IF op = "Mod" THEN NumberLiteral(f64_rem(left.num, right.num))
            ELSE IF op = "Pow" THEN NumberLiteral(f64_powf(left.num, right.num))
            ELSE IF op = "LessThan" THEN BoolLiteral(f64_lt(left.num, right.num))
            ELSE IF op = "GreaterThan" THEN BoolLiteral(f64_gt(left.num, right.num))
            ELSE IF op = "LessThanOrEqual"
                THEN BoolLiteral(f64_le(left.num, right.num))
            ELSE IF op = "GreaterThanOrEqual"
                THEN BoolLiteral(f64_ge(left.num, right.num))
            ELSE BinaryExpression(left, op, right)]

\* The Result of build_binary_expression, with the parser it was made by.
Built(b, p) == IF b.ok THEN POk(b.node, p) ELSE PErr(b.err, p)

\* fold_conditional treating the number 0 as true.
fold_conditional_zero_true(test, consequent, alternative) ==
    IF test.type = "NumberLiteral" THEN Some(consequent)
    ELSE IF test.type = "StringLiteral"
         THEN (IF Len(test.s) > 0 THEN Some(consequent) ELSE Some(alternative))
    ELSE IF \/ test.type \in {"FalseLiteral", "NullLiteral"}
            \/ test.type = "UnaryExpression" /\ test.s = "Void"
         THEN Some(alternative)
    ELSE IF test.type \in {"TrueLiteral", "ArrayLiteral", "ObjectLiteral"}
         THEN Some(consequent)
    ELSE None

fold_conditional(test, consequent, alternative) ==
    IF test.type = "NumberLiteral"
    THEN (IF test.num # F64(0, 1) THEN Some(consequent) ELSE Some(alternative))
    ELSE IF test.type = "StringLiteral"
         THEN (IF Len(test.s) > 0 THEN Some(consequent) ELSE Some(alternative))
    ELSE IF \/ test.type \in {"FalseLiteral", "NullLiteral"}
            \/ test.type = "UnaryExpression" /\ test.s = "Void"
         THEN Some(alternative)
    ELSE IF test.type \in {"TrueLiteral", "ArrayLiteral", "ObjectLiteral"}
         THEN Some(consequent)
    ELSE None

\* fold_while_loop dropping the loop for every constant test.
fold_while_loop_any_constant(test) ==
    IF \/ test.type \in {"NullLiteral", "FalseLiteral", "NumberLiteral",
                         "StringLiteral"}
       \/ test.type = "UnaryExpression" /\ test.s = "Void"
    THEN Some(ExpressionStatement(test))
    ELSE None

fold_while_loop(test) ==
    IF \/ test.type \in {"NullLiteral", "FalseLiteral"}
       \/ test.type = "UnaryExpression" /\ test.s = "Void"
    THEN Some(ExpressionStatement(test))
    ELSE IF test.type = "NumberLiteral"
         THEN (IF test.num = F64(0, 1) THEN Some(ExpressionStatement(test)) ELSE None)
    ELSE IF test.type = "StringLiteral"
         THEN (IF Len(test.s) = 0 THEN Some(ExpressionStatement(test)) ELSE None)
    ELSE None

\* The binop_production! levels, from the loosest to the tightest.
BinopLevels ==
    << {"LogicalOR"}, {"LogicalAND"}, {"BitwiseOR"}, {"BitwiseXOR"}, {"BitwiseAND"},
       {"Equal", "NotEqual"},
       {"LessThan", "GreaterThan", "LessThanOrEqual", "GreaterThanOrEqual"},
       {"LeftShift", "RightShift"}, {"Add", "Sub"}, {"Mul", "Div", "Mod"}, {"Pow"} >>

\* The op-assign table with **= taken for *=.
OpAssign_pow_as_mul ==
    [AddAssign |-> "Add", SubAssign |-> "Sub", MulAssign |-> "Mul",
     PowAssign |-> "Mul", DivAssign |-> "Div", ModAssign |-> "Mod"]

\* The operator an op-assign token stands for.
OpAssign ==
    [AddAssign |-> "Add", SubAssign |-> "Sub", MulAssign |-> "Mul",
     PowAssign |-> "Pow", DivAssign |-> "Div", ModAssign |-> "Mod"]

RECURSIVE parse_block_statement(_, _)
RECURSIVE block_items(_, _, _)
RECURSIVE parse_statement_list_item(_)
RECURSIVE parse_function(_, _, _)
RECURSIVE identifier_list(_, _, _, _, _)
RECURSIVE expression_list(_, _, _, _)
RECURSIVE object_fields(_, _, _)
RECURSIVE parse_lexical_declaration(_)
RECURSIVE parse_assignment_expression(_)
RECURSIVE parse_conditional_expression(_)
RECURSIVE binop_production(_, _)
RECURSIVE parse_unary_expression(_)
RECURSIVE parse_left_hand_side_expression(_)
RECURSIVE member_loop(_, _)
RECURSIVE parse_primary_expression(_)

parse_expression(p) == parse_assignment_expression(p)

\* The loop of parse_identifier_list.
identifier_list(p, closing, initializers, first, acc) ==
    IF Peek(p) = closing THEN PList(acc, Advance(p))
    ELSE Try(IF first THEN POk(NullLiteral, p) ELSE expect(p, T("Comma")), LAMBDA c :
         IF ~first /\ Peek(c.p) = closing THEN PList(acc, Advance(c.p))
         ELSE Try(parse_identifier(c.p, FALSE), LAMBDA ident :
              IF Peek(ident.p) = TOperator("Assign") /\ initializers
              THEN Try(parse_expression(Advance(ident.p)), LAMBDA init :
                        identifier_list(init.p, closing, initializers, FALSE,
                                        Append(acc, Initializer(ident.node.s, init.node))))
              ELSE identifier_list(ident.p, closing, initializers, FALSE,
                                   Append(acc, ident.node))))

parse_identifier_list(p, closing, initializers) ==
    identifier_list(p, closing, initializers, TRUE, <<>>)

\* The loop of parse_expression_list.
expression_list(p, closing, first, acc) ==
    IF Peek(p) = closing THEN PList(acc, Advance(p))
    ELSE Try(IF first THEN POk(NullLiteral, p) ELSE expect(p, T("Comma")), LAMBDA c :
         IF ~first /\ Peek(c.p) = closing THEN PList(acc, Advance(c.p))
         ELSE Try(parse_assignment_expression(c.p), LAMBDA e :
                   expression_list(e.p, closing, FALSE, Append(acc, e.node))))

parse_expression_list(p, closing) == expression_list(p, closing, TRUE, <<>>)

\* A function node with its FunctionKind.
OfKind(node, kind) ==
    IF kind = "Normal" THEN node ELSE [node EXCEPT !.type = kind \o @]

\* parse_function, after the `function` token.  A declaration enters its name
\* in the enclosing block's scope once its body is parsed; an expression
\* declares nothing.
parse_function(p, expression, kind) ==
    Try(IF expression /\ Peek(p).k # "Identifier" THEN POk(Identifier(""), p)
         ELSE parse_identifier(p, FALSE), LAMBDA name :
    Try(expect(name.p, T("LeftParen")), LAMBDA lp :
    Try(parse_identifier_list(lp.p, T("RightParen"), TRUE), LAMBDA args :
    Try(parse_block_statement(args.p, FunctionScope[kind]), LAMBDA body :
         IF expression
         THEN POk(OfKind(FunctionExpression(name.node.s, args.list, body.node), kind),
                  body.p)
         ELSE declare(body.p, name.node.s, FALSE,
                      OfKind(FunctionDeclaration(name.node.s, args.list, body.node),
                             kind))))))

\* The `return` arm of parse_statement_list_item, after the `return` token.
parse_return(p) ==
    IF Peek(p) = T("Semicolon") THEN POk(ReturnStatement(NullLiteral), Advance(p))
    ELSE Try(parse_expression(p), LAMBDA e :
         Try(expect(e.p, T("Semicolon")), LAMBDA semi :
              POk(ReturnStatement(IF e.node.type = "CallExpression"
                                  THEN [e.node EXCEPT !.type = "TailCallExpression"]
                                  ELSE e.node), semi.p)))

\* let and const: the name is entered in the enclosing block's scope after
\* the value and the semicolon are parsed.
parse_lexical_declaration(p) ==
    IF Peek(p).k \notin {"Let", "Const"} THEN PErr("UnexpectedToken", p)
    ELSE Try(parse_identifier(Advance(p), FALSE), LAMBDA name :
         Try(expect(name.p, TOperator("Assign")), LAMBDA eq :
         Try(parse_assignment_expression(eq.p), LAMBDA value :
         Try(expect(value.p, T("Semicolon")), LAMBDA semi :
              declare(semi.p, name.node.s, Peek(p).k = "Let",
                      LexicalInitialization(name.node.s, value.node))))))

\* The `if` arm of parse_statement_list_item, after the `if` token.
parse_if(p) ==
    Try(parse_expression(p), LAMBDA test :
    Try(parse_block_statement(test.p, "Block"), LAMBDA consequent :
         IF Peek(consequent.p) = T("Else")
         THEN Try(IF Peek(Advance(consequent.p)) = T("If")
                   THEN parse_statement_list_item(Advance(consequent.p))
                   ELSE parse_block_statement(Advance(consequent.p), "Block"),
                   LAMBDA alternative :
                   With(fold_conditional(test.node, consequent.node, alternative.node),
                        LAMBDA n :
                        IF n.some THEN POk(n.node, alternative.p)
                        ELSE POk(IfElseStatement(test.node, consequent.node,
                                                 alternative.node), alternative.p)))
         ELSE With(fold_conditional(test.node, consequent.node,
                                    ExpressionStatement(NullLiteral)), LAMBDA n :
                   IF n.some THEN POk(n.node, consequent.p)
                   ELSE POk(IfStatement(test.node, consequent.node), consequent.p))))

\* The `while` arm of parse_statement_list_item, after the `while` token.
parse_while(p) ==
    Try(parse_expression(p), LAMBDA test :
    Try(parse_block_statement(test.p, "Loop"), LAMBDA body :
         With(fold_while_loop(test.node), LAMBDA n :
              IF n.some THEN POk(n.node, body.p)
              ELSE POk(WhileStatement(test.node, body.node), body.p))))

parse_expression_statement(p) ==
    Try(parse_expression(p), LAMBDA e : POk(ExpressionStatement(e.node), e.p))

parse_statement_list_item(p) ==
    LET k == Peek(p).k
    IN  IF k = "None" THEN PErr("NormalEOF", p)
        ELSE IF k = "LeftBrace" THEN parse_block_statement(p, "Block")
        ELSE IF k \in {"Let", "Const"} THEN parse_lexical_declaration(p)
        ELSE IF k = "Function" THEN parse_function(Advance(p), FALSE, "Normal")
        ELSE IF k = "Async"
             THEN Try(expect(Advance(p), T("Function")), LAMBDA f :
                       parse_function(f.p, FALSE, "Async"))
        ELSE IF k = "Return" /\ in_scope(p, "Function") THEN parse_return(Advance(p))
        ELSE IF k = "If" THEN parse_if(Advance(p))
        ELSE IF k = "While" THEN parse_while(Advance(p))
        ELSE IF k = "Break" /\ in_scope(p, "Loop")
             THEN Try(expect(Advance(p), T("Semicolon")), LAMBDA semi :
                       POk(BreakStatement, semi.p))
        ELSE IF k = "Continue" /\ in_scope(p, "Loop")
             THEN Try(expect(Advance(p), T("Semicolon")), LAMBDA semi :
                       POk(ContinueStatement, semi.p))
        ELSE Try(parse_expression_statement(p), LAMBDA e :
             Try(expect(e.p, T("Semicolon")), LAMBDA semi : POk(e.node, semi.p)))

\* lex_stack.pop().
pop(p) == [p EXCEPT !.lex = SubSeq(@, 1, Len(@) - 1)]

\* The loop of parse_block_statement and its return.
block_items(p, scope, nodes) ==
    IF Peek(p) = T("RightBrace")
    THEN POk(BlockStatement(nodes, p.lex[Len(p.lex)], scope = "TopLevel"),
             pop(Advance(p)))
    ELSE With(parse_statement_list_item(p), LAMBDA item :
              IF item.ok THEN block_items(item.p, scope, Append(nodes, item.node))
              ELSE IF item.err = "NormalEOF" /\ scope = "TopLevel"
                   THEN POk(BlockStatement(nodes, item.p.lex[Len(item.p.lex)], TRUE),
                            pop(item.p))
              ELSE PErr(item.err, pop(item.p)))

\* The scope's bits are or-ed into scope_bits for the block's items, and
\* scope_bits is set back to what it was on both ways out.
parse_block_statement(p, scope) ==
    Try(IF scope # "TopLevel" THEN expect(p, T("LeftBrace")) ELSE POk(NullLiteral, p),
         LAMBDA lb :
         With(block_items([lb.p EXCEPT !.lex = Append(@, {}),
                                       !.bits = @ \cup ParseScope[scope]],
                          scope, <<>>),
              LAMBDA b : [b EXCEPT !.p.bits = lb.p.bits]))

parse_assignment_expression(p) ==
    Try(parse_conditional_expression(p), LAMBDA lhs :
         LET t == Peek(lhs.p)
         IN  IF t = TOperator("Assign")
             THEN Try(parse_assignment_expression(Advance(lhs.p)), LAMBDA rhs :
                       Built(build_binary_expression(lhs.node, "Assign", rhs.node),
                             rhs.p))
             ELSE IF t.k = "Operator" /\ t.s \in DOMAIN OpAssign
             THEN Try(parse_assignment_expression(Advance(lhs.p)), LAMBDA rhs :
                  Try(Built(build_binary_expression(lhs.node, OpAssign[t.s], rhs.node),
                             rhs.p), LAMBDA inner :
                       Built(build_binary_expression(lhs.node, "Assign", inner.node),
                             inner.p)))
             ELSE lhs)

parse_conditional_expression(p) ==
    Try(binop_production(p, 1), LAMBDA lhs :
         IF Peek(lhs.p) # T("Question") THEN lhs
         ELSE Try(parse_assignment_expression(Advance(lhs.p)), LAMBDA consequent :
              Try(expect(consequent.p, T("Colon")), LAMBDA colon :
              Try(parse_assignment_expression(colon.p), LAMBDA alternative :
                   With(fold_conditional(lhs.node, consequent.node, alternative.node),
                        LAMBDA n :
                        IF n.some THEN POk(n.node, alternative.p)
                        ELSE POk(ConditionalExpression(lhs.node, consequent.node,
                                                       alternative.node),
                                 alternative.p))))))

\* binop_production!: the production of one level; its right operand is the
\* same production again.
binop_production(p, level) ==
    IF level > Len(BinopLevels) THEN parse_unary_expression(p)
    ELSE Try(binop_production(p, level + 1), LAMBDA lhs :
              LET t == Peek(lhs.p)
              IN  IF t.k = "Operator" /\ t.s \in BinopLevels[level]
                  THEN Try(binop_production(Advance(lhs.p), level), LAMBDA rhs :
                            Built(build_binary_expression(lhs.node, t.s, rhs.node),
                                  rhs.p))
                  ELSE lhs)

parse_unary_expression(p) ==
    LET t == Peek(p)
    IN  IF t.k = "Operator" /\ t.s \in {"Add", "Sub", "BitwiseNOT", "Not"}
        THEN Try(parse_unary_expression(Advance(p)), LAMBDA e :
                  POk(UnaryExpression(t.s, e.node), e.p))
        ELSE IF t.k = "Await" /\ in_scope(p, "AsyncFunction")
        THEN Try(parse_unary_expression(Advance(p)), LAMBDA e :
                  POk(AwaitExpression(e.node), e.p))
        ELSE parse_left_hand_side_expression(p)

\* The loop of parse_left_hand_side_expression.
member_loop(p, base) ==
    IF Peek(p) = T("Dot")
    THEN Try(parse_identifier(Advance(p), TRUE), LAMBDA property :
              member_loop(property.p, MemberExpression(base, property.node.s)))
    ELSE IF Peek(p) = T("LeftBracket")
    THEN Try(parse_expression(Advance(p)), LAMBDA property :
         Try(expect(property.p, T("RightBracket")), LAMBDA rb :
              member_loop(rb.p, ComputedMemberExpression(base, property.node))))
    ELSE IF Peek(p) = T("LeftParen")
    THEN Try(parse_expression_list(Advance(p), T("RightParen")), LAMBDA args :
              member_loop(args.p, CallExpression(base, args.list)))
    ELSE POk(base, p)

parse_left_hand_side_expression(p) ==
    Try(parse_primary_expression(p), LAMBDA base : member_loop(base.p, base.node))

\* The loop of the object literal in parse_primary_expression.
object_fields(p, first, acc) ==
    IF Peek(p) = T("RightBrace") THEN POk(ObjectLiteral(acc), Advance(p))
    ELSE Try(IF first THEN POk(NullLiteral, p) ELSE expect(p, T("Comma")), LAMBDA c :
         IF ~first /\ Peek(c.p) = T("RightBrace")
         THEN POk(ObjectLiteral(acc), Advance(c.p))
         ELSE Try(IF Peek(c.p) = T("LeftBracket")
                   THEN Try(parse_expression(Advance(c.p)), LAMBDA name :
                             Try(expect(name.p, T("RightBracket")), LAMBDA rb :
                                  POk(name.node, rb.p)))
                   ELSE Try(parse_identifier(c.p, TRUE), LAMBDA name :
                             POk(StringLiteral(name.node.s), name.p)), LAMBDA name :
              Try(IF Peek(name.p) = T("Colon") THEN parse_expression(Advance(name.p))
                   ELSE parse_function(name.p, TRUE, "Normal"), LAMBDA init :
                   object_fields(init.p, FALSE,
                                 Append(acc, ObjectInitializer(name.node, init.node))))))

\* parse_primary_expression.  Template and regex literals are read from the
\* characters, and async, gen and arrow functions open other scopes: the
\* tokens that start them are not among those modelled.
parse_primary_expression(p) ==
    LET t == Peek(p)
        q == Advance(p)
    IN  IF t.k = "None" THEN PErr("UnexpectedEOF", q)
        ELSE IF t.k = "This" THEN POk(ThisExpression, q)
        ELSE IF t.k = "New"
             THEN Try(parse_left_hand_side_expression(q), LAMBDA e :
                       POk(NewExpression(e.node), e.p))
        ELSE IF t.k = "Null" THEN POk(NullLiteral, q)
        ELSE IF t.k = "True" THEN POk(TrueLiteral, q)
        ELSE IF t.k = "False" THEN POk(FalseLiteral, q)
        ELSE IF t.k = "Colon"
             THEN Try(parse_identifier(q, FALSE), LAMBDA name :
                       POk(SymbolLiteral(name.node.s), name.p))
        ELSE IF t.k = "Operator" /\ t.s \in {"Typeof", "Void"}
             THEN Try(parse_unary_expression(q), LAMBDA e :
                       POk(UnaryExpression(t.s, e.node), e.p))
        ELSE IF t.k = "StringLiteral" THEN POk(StringLiteral(t.s), q)
        ELSE IF t.k = "NumberLiteral" THEN POk(NumberLiteral(F64(t.n, 1)), q)
        ELSE IF t.k = "Identifier" THEN POk(Identifier(t.s), q)
        ELSE IF t.k = "Function" THEN parse_function(q, TRUE, "Normal")
        ELSE IF t.k = "LeftParen"
             THEN Try(parse_expression_list(q, T("RightParen")), LAMBDA l :
                       IF Peek(l.p) = T("Arrow") THEN PErr("Unmodelled", l.p)
                       ELSE IF l.list = <<>> THEN PErr("UnexpectedToken", l.p)
                       ELSE IF Len(l.list) = 1
                            THEN POk(ParenthesizedExpression(l.list[1]), l.p)
                       ELSE POk(TupleLiteral(l.list), l.p))
        ELSE IF t.k = "LeftBracket"
             THEN Try(parse_expression_list(q, T("RightBracket")), LAMBDA l :
                       POk(ArrayLiteral(l.list), l.p))
        ELSE IF t.k = "LeftBrace" THEN object_fields(q, TRUE, <<>>)
        ELSE IF \/ t.k \in {"BackQuote", "Async", "Gen"}
                \/ t.k = "Operator" /\ t.s = "Div"
             THEN PErr("Unmodelled", q)
        ELSE PErr("UnexpectedToken", q)

\* Parser::parse with the last item left as it is.
parse_keeps_last(code) == parse_block_statement(NewParser(code), "TopLevel")

\* Parser::parse: the top-level block, with a last item that is an expression
\* statement replaced by the expression in parentheses.
parse(code) ==
    Try(parse_block_statement(NewParser(code), "TopLevel"), LAMBDA b :
         LET items == b.node.kids
         IN  IF items # <<>> /\ items[Len(items)].type = "ExpressionStatement"
             THEN POk(BlockStatement(
                          Append(SubSeq(items, 1, Len(items) - 1),
                                 ParenthesizedExpression(items[Len(items)].kids[1])),
                          b.node.decls, b.node.top), b.p)
             ELSE b)

-----------------------------------------------------------------------------
(* The state machine *)

\* The record of a step: the operation, the pair and promise it is about, the
\* argument it read, the latch it found, what `then` did if it was read, and
\* the value returned to the caller.
Op(op, k, p, arg, latch, kind, ret) ==
    [op |-> op, k |-> k, p |-> p, arg |-> arg, latch |-> latch, kind |-> kind,
     ret |-> ret]

\* The state after construction, the parser's input left open.
InitMachine ==
    /\ promises = <<>>
    /\ fns = <<>>
    /\ jobs = <<>>
    /\ stack = <<>>
    /\ nreact = 0
    /\ enqLog = <<>>
    /\ seenLog = <<>>
    /\ execLog = <<>>
    /\ regLog = <<>>
    /\ adopted = <<>>
    /\ last = Op("init", 0, 0, Null, FALSE, "none", Ok(Null))
    /\ panicked = FALSE
    /\ unhandled = 0
    /\ queue = <<>>
    /\ buffer = <<>>
    /\ registered = TRUE
    /\ closed = FALSE
    /\ nextLog = <<>>
    /\ delivLog = <<>>
    /\ mailbox = <<>>
    /\ host = "run"
    /\ handled = <<>>
    /\ capExec = [resolve |-> NullFn, reject |-> NullFn, log |-> <<>>]

Init ==
    /\ InitMachine
    /\ source = <<>>
    /\ parsed = NotParsed

\* A step allocates promises and pairs only within the bounds.
WithinBounds(s) ==
    /\ Len(s.promises) > Len(promises) => Len(s.promises) <= MaxPromises
    /\ Len(s.fns) > Len(fns) => Len(s.fns) <= MaxFns

\* The intrinsics' effect on the shared state.
Apply(s) ==
    /\ promises' = s.promises
    /\ fns' = s.fns
    /\ jobs' = s.jobs
    /\ nreact' = s.nreact
    /\ enqLog' = s.enqLog
    /\ seenLog' = s.seenLog
    /\ regLog' = s.regLog
    /\ adopted' = s.adopted
    /\ panicked' = s.panicked

Commit(s) == WithinBounds(s) /\ Apply(s)

Promises == 1..Len(promises)
Fns == 1..Len(fns)

ResolveArgs == {Num(1)} \cup {PromiseRef(p) : p \in Promises}
RejectArgs == {Num(3)} \cup {PromiseRef(p) : p \in Promises}
\* The (on_fulfilled, on_rejected) pairs script code passes to then.
Handlers ==
    {<<NullFn, NullFn>>, <<IdFn, IdFn>>, <<ThrowFn(HandlerError), NullFn>>}
\* What the `then` property of a resolution can do when resolve reads it.
ThenKindsOf(v) == IF has_promise_state(v) THEN ThenKinds ELSE {"intrinsic"}

\* The argument a resolving function of pair k reads (lines 115, 153): it
\* returns before reading its arguments when the latch is set.
ArgRead(k, v) == IF fns[k].resolved THEN Null ELSE v
ArgsRead(k, args) == {ArgRead(k, v) : v \in args}

\* new Promise(executor) up to the call of a script executor (lines 157-171):
\* the executor holds the pair and runs until ExecutorReturn or ExecutorThrow.
Construct ==
    /\ Len(stack) < MaxStack
    /\ \E s1 \in {new_promise_object(S)} :
       \E s2 \in {create_resolving_functions(s1, Len(s1.promises), TRUE)} :
          /\ Commit(s2)
          /\ stack' = Append(stack, [promise |-> Len(s2.promises), k |-> Len(s2.fns)])
          /\ last' = Op("construct", Len(s2.fns), Len(s2.promises), Null, FALSE,
                        "none", Ok(Null))
    /\ UNCHANGED <<execLog, unhandled>>
    /\ UNCHANGED netVars

\* The executor on top of the stack returns normally (lines 171-177).
ExecutorReturn ==
    /\ stack # <<>>
    /\ \E top \in {stack[Len(stack)]} :
       \E s1 \in {promise_executor_result(S, top.promise, top.k, Ok(Null))} :
          /\ Commit(s1)
          /\ stack' = SubSeq(stack, 1, Len(stack) - 1)
          /\ last' = Op("executorReturn", top.k, top.promise, Null,
                        fns[top.k].resolved, "none", s1.ret)
    /\ UNCHANGED <<execLog, unhandled>>
    /\ UNCHANGED netVars

\* The executor on top of the stack raises e (lines 173-177).
ExecutorThrow ==
    /\ stack # <<>>
    /\ \E top \in {stack[Len(stack)]} :
       \E s1 \in {promise_executor_result(S, top.promise, top.k, Err(ExecutorError))} :
          /\ Commit(s1)
          /\ stack' = SubSeq(stack, 1, Len(stack) - 1)
          /\ last' = Op("executorThrow", top.k, top.promise, ExecutorError,
                        fns[top.k].resolved, "none", s1.ret)
    /\ UNCHANGED <<execLog, unhandled>>
    /\ UNCHANGED netVars

\* Script code calls a resolve function it holds.
CallResolve ==
    \E k \in Fns : \E v \in ArgsRead(k, ResolveArgs) : \E kind \in ThenKindsOf(v) :
        /\ fns[k].held
        /\ \E s1 \in {promise_resolve_function(S, k, v, kind)} :
              /\ Commit(s1)
              /\ last' = Op("resolve", k, fns[k].promise, v, fns[k].resolved,
                            IF has_promise_state(v) /\ v # PromiseRef(fns[k].promise)
                            THEN kind ELSE "none", s1.ret)
        /\ UNCHANGED <<stack, execLog, unhandled>>
        /\ UNCHANGED netVars

\* Script code calls a reject function it holds.
CallReject ==
    \E k \in Fns : \E v \in ArgsRead(k, RejectArgs) :
        /\ fns[k].held
        /\ \E s1 \in {promise_reject_function(S, k, v)} :
              /\ Commit(s1)
              /\ last' = Op("reject", k, fns[k].promise, v, fns[k].resolved, "none",
                            s1.ret)
        /\ UNCHANGED <<stack, execLog, unhandled>>
        /\ UNCHANGED netVars

\* Script code calls q.then(on_fulfilled, on_rejected).
Then ==
    \E q \in Promises : \E h \in Handlers :
        /\ \E s1 \in {promise_proto_then(S, q, h[1], h[2])} :
              /\ Commit(s1)
              /\ last' = Op("then", 0, q, Null, FALSE, "none", s1.ret)
        /\ UNCHANGED <<stack, execLog, unhandled>>
        /\ UNCHANGED netVars

\* The record of a job's run: the step's record, with the reaction of the job
\* and the calls the job made, in order.
JobOp(job, kind, s) ==
    [op |-> "job", k |-> 0, p |-> job.reaction.promise, arg |-> job.argument,
     latch |-> FALSE, kind |-> kind, ret |-> s.ret,
     reaction |-> job.reaction, calls |-> s.calls]

\* The host loop's drain_one: pop the head job and invoke it; an error goes to
\* the unhandled-error hook.  Jobs run only when no script code is running.
\* `bounded` keeps what the job allocates within the bounds.
drain_one(bounded) ==
    /\ stack = <<>>
    /\ jobs # <<>>
    /\ \E kind \in ThenKindsOf(Head(jobs).argument) :
       \E job \in {Head(jobs)} :
       \E s0 \in {[S EXCEPT !.jobs = Tail(jobs)]} :
       \E s1 \in {promise_reaction_job(s0, job.reaction, job.argument, kind)} :
          /\ bounded => WithinBounds(s1)
          /\ Apply(s1)
          /\ execLog' = Append(execLog, job)
          /\ unhandled' = IF s1.ret.ok THEN unhandled ELSE unhandled + 1
          /\ last' = JobOp(job, IF has_promise_state(job.argument) THEN kind ELSE "none",
                           s1)
    /\ UNCHANGED stack
    /\ UNCHANGED netVars

RunJob == drain_one(TRUE)

Next ==
    \/ Construct
    \/ ExecutorReturn
    \/ ExecutorThrow
    \/ CallResolve
    \/ CallReject
    \/ Then
    \/ RunJob

Spec == Init /\ [][Next]_vars

-----------------------------------------------------------------------------
(* The endpoint's state machine *)

\* What the reactor can deliver: an accepted value or an error.
Outcomes == {Ok(Num(1)), Ok(Num(2)), Err(DeliveryError)}

\* Script code calls next() on the endpoint.
NetNext ==
    /\ \E r \in {next(S, queue, buffer)} :
          /\ Commit(r.s)
          /\ queue' = r.queue
          /\ buffer' = r.buffer
          /\ nextLog' = IF r.s.ret.ok THEN Append(nextLog, r.s.ret.val.n) ELSE nextLog
          /\ last' = Op("next", 0, 0, Null, FALSE, "none", r.s.ret)
    /\ UNCHANGED <<stack, execLog, unhandled, registered, closed, source, parsed, delivLog>>
    /\ UNCHANGED hostVars

\* The reactor reports an event for the endpoint's registered token.
Deliver ==
    /\ registered
    /\ stack = <<>>
    /\ \E outcome \in Outcomes :
          \E r \in {deliver(S, queue, buffer, outcome)} :
             /\ Commit(r.s)
             /\ queue' = r.queue
             /\ buffer' = r.buffer
             /\ delivLog' = Append(delivLog, outcome)
             /\ last' = Op("deliver", 0, 0, outcome.val, FALSE, "none", Ok(Null))
    /\ UNCHANGED <<stack, execLog, unhandled, registered, closed, source, parsed, nextLog>>
    /\ UNCHANGED hostVars

\* Script code calls close() on the endpoint.
Close ==
    /\ registered' = close(registered)
    /\ closed' = TRUE
    /\ UNCHANGED <<source, parsed>>
    /\ last' = Op("close", 0, 0, Null, FALSE, "none", Ok(Null))
    /\ UNCHANGED promiseVars
    /\ UNCHANGED <<queue, buffer, nextLog, delivLog>>
    /\ UNCHANGED hostVars

\* Script code calls then on a promise that next() returned.
NetThen ==
    \E i \in 1..Len(nextLog) :
        /\ \E s1 \in {promise_proto_then(S, nextLog[i], IdFn, IdFn)} :
              /\ Commit(s1)
              /\ last' = Op("then", 0, nextLog[i], Null, FALSE, "none", s1.ret)
        /\ UNCHANGED <<stack, execLog, unhandled>>
        /\ UNCHANGED netVars

NextNet ==
    \/ NetNext
    \/ Deliver
    \/ Close
    \/ NetThen
    \/ RunJob

SpecNet == Init /\ [][NextNet]_vars

-----------------------------------------------------------------------------
(* The endpoint's methods from their entry, receiver test included *)

\* The record of a method call: the receiver it was made on, whether close()
\* had already returned on the endpoint, and the call's result.
MethodOp(op, this, ret) ==
    [op |-> op, k |-> 0, p |-> 0, arg |-> Null, latch |-> FALSE, kind |-> "none",
     ret |-> ret, this |-> this, closed |-> closed]

MethodReceivers == {Endpoint, PlainObject}

\* Script code calls the prototype's next() on some receiver.
MethodNext ==
    /\ \E this \in MethodReceivers :
          \E r \in {next_this(S, this, queue, buffer)} :
             /\ Commit(r.s)
             /\ queue' = r.queue
             /\ buffer' = r.buffer
             /\ nextLog' = IF r.s.ret.ok THEN Append(nextLog, r.s.ret.val.n)
                           ELSE nextLog
             /\ last' = MethodOp("next", this, r.s.ret)
    /\ UNCHANGED <<stack, execLog, unhandled, registered, closed, source, parsed, delivLog>>
    /\ UNCHANGED hostVars

\* Script code calls the prototype's close() on some receiver.
MethodClose ==
    /\ \E this \in MethodReceivers :
          \E r \in {close_this(S, this, queue, buffer, registered)} :
             /\ Commit(r.s)
             /\ queue' = r.queue
             /\ buffer' = r.buffer
             /\ registered' = r.registered
             /\ closed' = (closed \/ r.s.ret.ok)
             /\ UNCHANGED <<source, parsed>>
             /\ last' = MethodOp("close", this, r.s.ret)
    /\ UNCHANGED <<stack, execLog, unhandled, nextLog, delivLog>>
    /\ UNCHANGED hostVars

NextMethod ==
    \/ MethodNext
    \/ MethodClose
    \/ Deliver
    \/ NetThen
    \/ RunJob

SpecMethod == Init /\ [][NextMethod]_vars

-----------------------------------------------------------------------------
(* The resolve function called with every kind of value *)

\* What script code passes to a resolve function: a number, an object with a
\* callable `then`, a promise.
Resolutions ==
    {Num(1), ThenableObject} \cup {PromiseRef(p) : p \in Promises}

\* new_promise_capability(agent, Promise), its functions handed to script code.
ThenableCapability ==
    /\ Len(promises) < MaxCapabilities
    /\ \E s1 \in {new_promise_capability(S)} :
          /\ Commit(s1)
          /\ last' = Op("capability", Len(s1.fns), Len(s1.promises), Null, FALSE,
                        "none", s1.ret)
    /\ UNCHANGED <<stack, execLog, unhandled>>
    /\ UNCHANGED netVars

\* Script code calls the resolve function of pair k with x (lines 100-136).
ResolveWith ==
    \E k \in Fns : \E x \in Resolutions : \E kind \in ThenKindsOf(x) :
        /\ \E s1 \in {promise_resolve_function(S, k, x, kind)} :
              /\ Commit(s1)
              /\ last' = Op("resolve", k, fns[k].promise, x, fns[k].resolved,
                            IF has_promise_state(x) THEN kind ELSE "none", s1.ret)
        /\ UNCHANGED <<stack, execLog, unhandled>>
        /\ UNCHANGED netVars

NextThenable ==
    \/ ThenableCapability
    \/ ResolveWith
    \/ RunJob

SpecThenable == Init /\ [][NextThenable]_vars

-----------------------------------------------------------------------------
(* Reaction jobs handed to the queue by the rest of the runtime *)

\* The capabilities a reaction can have downstream: the promises that carry
\* their resolving functions in the resolve and reject slots.
Capabilities == {p \in Promises : promises[p].resolve # NullFn}

\* The handlers of the reactions: none, and script functions that return
\* their argument or a promise, or throw.
JobHandlers ==
    {NullFn, IdFn, ThrowFn(HandlerError)} \cup {RetFn(PromiseRef(p)) : p \in Promises}

\* The reactions: with a capability or as a sink, of either kind.
JobReactions ==
    {[id |-> nreact + 1, promise |-> d, kind |-> kind, handler |-> h, of |-> 0] :
        d \in Capabilities \cup {0}, kind \in {"fulfill", "reject"}, h \in JobHandlers}

JobArguments == {Num(1)} \cup {PromiseRef(p) : p \in Promises}

\* new_promise_capability(agent, Promise): a downstream capability is made,
\* before the reactions that name it.
JobCapability ==
    /\ Len(promises) < MaxCapabilities
    /\ enqLog = <<>>
    /\ \E s1 \in {new_promise_capability(S)} :
          /\ Commit(s1)
          /\ last' = Op("capability", Len(s1.fns), Len(s1.promises), Null, FALSE,
                        "none", s1.ret)
    /\ UNCHANGED <<stack, execLog, unhandled>>
    /\ UNCHANGED netVars

\* agent.enqueue_job(promise_reaction_job, [reaction, argument]).
JobEnqueue ==
    /\ Len(enqLog) < MaxJobs
    /\ \E reaction \in JobReactions : \E argument \in JobArguments :
       \E s1 \in {[enqueue_job(S, reaction, argument) EXCEPT !.nreact = @ + 1]} :
          /\ Commit(s1)
          /\ last' = Op("enqueue", 0, reaction.promise, argument, FALSE, "none",
                        Ok(Null))
    /\ UNCHANGED <<stack, execLog, unhandled>>
    /\ UNCHANGED netVars

NextJob ==
    \/ JobCapability
    \/ JobEnqueue
    \/ RunJob

SpecJob == Init /\ [][NextJob]_vars

-----------------------------------------------------------------------------
(* The parser's input and its run *)

\* A statement of a source program: its kind, the name it declares, the
\* tokens of its expression (the test of an if or a while), the statements of
\* its block, and after an if the statement that follows `else`, if any.
Stmt(t, name, e, body, alt) ==
    [t |-> t, name |-> name, e |-> e, body |-> body, alt |-> alt]

ExprStmt(e) == Stmt("expr", "", e, <<>>, <<>>)
LetStmt(name, e) == Stmt("let", name, e, <<>>, <<>>)
ConstStmt(name, e) == Stmt("const", name, e, <<>>, <<>>)
FunctionStmt(name, body) == Stmt("function", name, <<>>, body, <<>>)
BlockStmt(body) == Stmt("block", "", <<>>, body, <<>>)
IfStmt(test, body, alt) == Stmt("if", "", test, body, alt)
WhileStmt(test, body) == Stmt("while", "", test, body, <<>>)
AsyncFunctionStmt(name, body) == Stmt("async", name, <<>>, body, <<>>)
ReturnStmt(e) == Stmt("return", "", e, <<>>, <<>>)
BreakStmt == Stmt("break", "", <<>>, <<>>, <<>>)
ContinueStmt == Stmt("continue", "", <<>>, <<>>, <<>>)

\* The tokens the lexer yields for the text of a statement.
RECURSIVE Tokens(_)
RECURSIVE TokensOfAll(_)
TokensOfAll(stmts) ==
    IF stmts = <<>> THEN <<>> ELSE Tokens(Head(stmts)) \o TokensOfAll(Tail(stmts))

TokensOfBlock(body) == <<T("LeftBrace")>> \o TokensOfAll(body) \o <<T("RightBrace")>>

Tokens(st) ==
    CASE st.t = "expr" -> st.e \o <<T("Semicolon")>>
      [] st.t = "let" ->
            <<T("Let"), TIdentifier(st.name), TOperator("Assign")>> \o st.e
                \o <<T("Semicolon")>>
      [] st.t = "const" ->
            <<T("Const"), TIdentifier(st.name), TOperator("Assign")>> \o st.e
                \o <<T("Semicolon")>>
      [] st.t = "function" ->
            <<T("Function"), TIdentifier(st.name), T("LeftParen"), T("RightParen")>>
                \o TokensOfBlock(st.body)
      [] st.t = "block" -> TokensOfBlock(st.body)
      [] st.t = "if" ->
            <<T("If")>> \o st.e \o TokensOfBlock(st.body)
                \o (IF st.alt = <<>> THEN <<>> ELSE <<T("Else")>> \o Tokens(st.alt[1]))
      [] st.t = "while" -> <<T("While")>> \o st.e \o TokensOfBlock(st.body)
      [] st.t = "async" ->
            <<T("Async"), T("Function"), TIdentifier(st.name), T("LeftParen"),
              T("RightParen")>> \o TokensOfBlock(st.body)
      [] st.t = "return" -> <<T("Return")>> \o st.e \o <<T("Semicolon")>>
      [] st.t = "break" -> <<T("Break"), T("Semicolon")>>
      [] st.t = "continue" -> <<T("Continue"), T("Semicolon")>>

\* The sequences over a set of statements, up to a length.
RECURSIVE SeqsUpTo(_, _)
SeqsUpTo(set, n) ==
    IF n = 0 THEN {<<>>}
    ELSE LET shorter == SeqsUpTo(set, n - 1)
         IN  shorter \cup {Append(s, x) : s \in shorter, x \in set}

\* Expressions that parse to a constant the folds take for true ...
TruthyTests ==
    {<<TNumber(1)>>, <<TString("s")>>, <<T("True")>>,
     <<T("LeftBracket"), T("RightBracket")>>, <<T("LeftBrace"), T("RightBrace")>>,
     <<TNumber(1), TOperator("LessThan"), TNumber(2)>>,
     <<TNumber(2), TOperator("Sub"), TNumber(1)>>,
     <<TNumber(1), TOperator("Div"), TNumber(2)>>,
     <<TNumber(0), TOperator("Div"), TNumber(0)>>,
     <<TString(""), TOperator("Add"), TString("s")>>}

\* ... for false ...
FalsyTests ==
    {<<TNumber(0)>>, <<TString("")>>, <<T("False")>>, <<T("Null")>>,
     <<TOperator("Void"), TNumber(1)>>,
     <<TNumber(1), TOperator("Sub"), TNumber(1)>>,
     <<TNumber(2), TOperator("LessThan"), TNumber(1)>>,
     <<TNumber(0), TOperator("Mul"), TNumber(2)>>}

\* ... and expressions that do not parse to a constant.
OpenTests ==
    {<<TIdentifier("a")>>,
     <<TIdentifier("a"), T("Dot"), TIdentifier("b")>>,
     <<T("LeftParen"), TNumber(0), T("RightParen")>>,
     <<TOperator("Sub"), TNumber(1)>>,
     <<TOperator("Not"), T("True")>>,
     <<TIdentifier("a"), TOperator("Add"), TNumber(1)>>,
     <<TNumber(1), TOperator("Equal"), TNumber(1)>>,
     <<TOperator("Typeof"), TIdentifier("a")>>}

Tests == TruthyTests \cup FalsyTests \cup OpenTests

\* The statements the generated blocks are made of.
BodyStatements ==
    {ExprStmt(<<TIdentifier("a"), TOperator("AddAssign"), TNumber(2)>>),
     LetStmt("a", <<TNumber(1)>>)}

Bodies == SeqsUpTo(BodyStatements, MaxItems)

\* What may follow an if's block: nothing, else and a block, else and an if.
Alternatives ==
    {<<>>} \cup {<<BlockStmt(b)>> : b \in Bodies}
           \cup {<<IfStmt(t, <<>>, <<>>)>> :
                    t \in {<<TNumber(0)>>, <<TNumber(1)>>, <<TIdentifier("a")>>}}

IfStatements == {IfStmt(t, b, alt) : t \in Tests, b \in Bodies, alt \in Alternatives}

\* A statement alone, before another statement, in a block and in a function.
Placed(st) ==
    {<<st>>, <<st, ExprStmt(<<TIdentifier("b")>>)>>, <<BlockStmt(<<st>>)>>,
     <<FunctionStmt("f", <<st>>)>>}

IfSources == UNION {Placed(st) : st \in IfStatements}

\* Parser::parse is run on the tokens of the source.
Parse ==
    /\ parsed = NotParsed
    /\ parsed' = Returned(parse(TokensOfAll(source)))
    /\ UNCHANGED <<source, last>>
    /\ UNCHANGED promiseVars
    /\ UNCHANGED <<stack, execLog, queue, buffer, registered, closed, nextLog, delivLog>>
    /\ UNCHANGED hostVars

NextParser == Parse

\* The parser is handed a program with an if statement.
InitIf ==
    /\ InitMachine
    /\ source \in IfSources
    /\ parsed = NotParsed

SpecIf == InitIf /\ [][NextParser]_vars

WhileStatements == {WhileStmt(t, b) : t \in Tests, b \in Bodies}

WhileSources == UNION {Placed(st) : st \in WhileStatements}

\* The parser is handed a program with a while statement.
InitWhile ==
    /\ InitMachine
    /\ source \in WhileSources
    /\ parsed = NotParsed

SpecWhile == InitWhile /\ [][NextParser]_vars

\* The statements the generated top-level programs are made of.
TopStatements ==
    {ExprStmt(<<TIdentifier("a")>>),
     ExprStmt(<<TIdentifier("a"), TOperator("AddAssign"), TNumber(2)>>),
     LetStmt("a", <<TNumber(1)>>),
     ConstStmt("b", <<TNumber(1), TOperator("Add"), TNumber(2)>>),
     FunctionStmt("f", <<ExprStmt(<<TIdentifier("a")>>)>>),
     BlockStmt(<<ExprStmt(<<TIdentifier("a")>>)>>),
     IfStmt(<<TNumber(0)>>, <<>>, <<>>),
     IfStmt(<<TIdentifier("a")>>, <<LetStmt("a", <<TNumber(1)>>)>>, <<>>),
     WhileStmt(<<TString("")>>, <<>>),
     WhileStmt(<<TIdentifier("a")>>, <<ExprStmt(<<TIdentifier("a")>>)>>)}

TopSources == SeqsUpTo(TopStatements, MaxItems)

\* The parser is handed a program of top-level statements.
InitTop ==
    /\ InitMachine
    /\ source \in TopSources
    /\ parsed = NotParsed

SpecTop == InitTop /\ [][NextParser]_vars

\* The targets of the generated assignments: an identifier, a member of an
\* identifier and of this, and a computed member.
AssignTargets ==
    {<<TIdentifier("a")>>,
     <<TIdentifier("a"), T("Dot"), TIdentifier("b")>>,
     <<T("This"), T("Dot"), TIdentifier("a")>>,
     <<TIdentifier("a"), T("LeftBracket"), TNumber(0), T("RightBracket")>>}

\* Right-hand sides that are one operand ...
UnitOperands ==
    {<<TNumber(2)>>, <<TIdentifier("b")>>, <<TString("s")>>,
     <<TIdentifier("b"), T("Dot"), TIdentifier("c")>>,
     <<TOperator("Sub"), TIdentifier("b")>>,
     <<T("LeftParen"), TIdentifier("b"), TOperator("Add"), TIdentifier("c"),
       T("RightParen")>>}

\* ... and right-hand sides with operators of their own.
CompoundOperands ==
    {<<TIdentifier("b"), TOperator("Add"), TIdentifier("c")>>,
     <<TIdentifier("b"), TOperator("Mul"), TIdentifier("c")>>,
     <<TNumber(1), TOperator("Add"), TNumber(2)>>,
     <<TIdentifier("b"), TOperator("LessThan"), TIdentifier("c")>>,
     <<TIdentifier("b"), TOperator("Assign"), TIdentifier("c")>>,
     <<TIdentifier("b"), TOperator("SubAssign"), TNumber(1)>>,
     <<TIdentifier("b"), T("Question"), TIdentifier("c"), T("Colon"),
       TIdentifier("d")>>}

AssignStatements ==
    {ExprStmt(lhs \o <<TOperator(op)>> \o rhs) :
        lhs \in AssignTargets, op \in DOMAIN OpAssign,
        rhs \in UnitOperands \cup CompoundOperands}

AssignSources == UNION {Placed(st) : st \in AssignStatements}

\* The parser is handed a program with a compound assignment.
InitAssign ==
    /\ InitMachine
    /\ source \in AssignSources
    /\ parsed = NotParsed

SpecAssign == InitAssign /\ [][NextParser]_vars

\* The declarations of the generated blocks: let a, const a, function a and
\* const b.
Declarations ==
    {LetStmt("a", <<TNumber(1)>>), ConstStmt("a", <<TNumber(2)>>),
     FunctionStmt("a", <<>>), ConstStmt("b", <<TIdentifier("a")>>)}

DeclaringBodies == SeqsUpTo(Declarations, MaxItems)

\* The statements that hold a block of declarations: a block, a function, an
\* if whose block is removed, kept or neither, an else block that is kept or
\* neither, and a while whose block is removed or not.
Nesting(body) ==
    {BlockStmt(body), FunctionStmt("f", body),
     IfStmt(<<TNumber(0)>>, body, <<>>), IfStmt(<<TNumber(1)>>, body, <<>>),
     IfStmt(<<TIdentifier("x")>>, body, <<>>),
     IfStmt(<<TNumber(0)>>, <<>>, <<BlockStmt(body)>>),
     IfStmt(<<TIdentifier("x")>>, <<LetStmt("a", <<TNumber(1)>>)>>, <<BlockStmt(body)>>),
     WhileStmt(<<TNumber(0)>>, body), WhileStmt(<<TIdentifier("x")>>, body)}

NestingStatements == UNION {Nesting(body) : body \in DeclaringBodies}

\* Programs of declarations, and programs with a nesting statement between
\* declarations, at the top level, in a block and in a function.
DeclSources ==
    LET around == SeqsUpTo(Declarations, 1)
        nested == {pre \o <<st>> \o post :
                      pre \in around, st \in NestingStatements, post \in around}
        inner == {pre \o <<st>> : pre \in around, st \in NestingStatements}
    IN  DeclaringBodies \cup nested
            \cup {<<BlockStmt(body)>> : body \in inner}
            \cup {<<FunctionStmt("g", body)>> : body \in inner}

\* The parser is handed a program with declarations.
InitDecl ==
    /\ InitMachine
    /\ source \in DeclSources
    /\ parsed = NotParsed

SpecDecl == InitDecl /\ [][NextParser]_vars

\* The statements whose keyword the parser takes in some scopes only.
GatedStatements ==
    {ReturnStmt(<<>>), ReturnStmt(<<TIdentifier("a")>>), BreakStmt, ContinueStmt,
     ExprStmt(<<T("Await"), TIdentifier("a")>>),
     LetStmt("a", <<TNumber(1), TOperator("Add"), T("Await"), TIdentifier("b")>>)}

\* The statements with a block a statement can be in: a block, an if, a
\* while, a function and an async function.
Enclosure(kind, body) ==
    CASE kind = "block" -> BlockStmt(body)
      [] kind = "if" -> IfStmt(<<TIdentifier("x")>>, body, <<>>)
      [] kind = "while" -> WhileStmt(<<TIdentifier("x")>>, body)
      [] kind = "function" -> FunctionStmt("f", body)
      [] kind = "async" -> AsyncFunctionStmt("f", body)

EnclosureKinds == {"block", "if", "while", "function", "async"}

\* A statement inside the enclosures of the given kinds, outermost first.
RECURSIVE Enclosed(_, _)
Enclosed(kinds, st) ==
    IF kinds = <<>> THEN st
    ELSE Enclosure(Head(kinds), <<Enclosed(Tail(kinds), st)>>)

GatedSources ==
    {<<Enclosed(kinds, st)>> :
        kinds \in SeqsUpTo(EnclosureKinds, MaxDepth), st \in GatedStatements}

\* The parser is handed a program with a gated keyword in nested blocks.
InitGated ==
    /\ InitMachine
    /\ source \in GatedSources
    /\ parsed = NotParsed

SpecGated == InitGated /\ [][NextParser]_vars

-----------------------------------------------------------------------------
(* The constructor's statics and its argument test *)

\* The record of a call of a static: Op with the receiver and with what
\* reading x.constructor gave.
StaticOp(op, c, ctor, p, arg, kind, ret) ==
    [op |-> op, k |-> 0, p |-> p, arg |-> arg, latch |-> FALSE, kind |-> kind,
     ret |-> ret, c |-> c, ctor |-> ctor]

\* The receivers script code calls the statics on.
Receivers == {PromiseCtor, Num(7)}

\* What reading x.constructor can give.
CtorReads(x) ==
    IF has_promise_state(x)
    THEN {Ok(PromiseCtor), Ok(Null), Err(ConstructorError)}
    ELSE {Ok(Null)}

\* The values script code passes to new Promise as the executor that are not
\* functions.
NonFunctions == {Null, Num(1), new_error("e")} \cup {PromiseRef(p) : p \in Promises}

\* new Promise(executor) with an executor that is not a function.
ConstructNonFunction ==
    /\ \E executor \in NonFunctions :
        \E s1 \in {promise(S, executor)} :
           /\ Commit(s1)
           /\ stack' = IF s1.ret.ok
                       THEN Append(stack, [promise |-> Len(s1.promises),
                                           k |-> Len(s1.fns)])
                       ELSE stack
           /\ last' = Op("new Promise", 0, 0, executor, FALSE, "none", s1.ret)
    /\ UNCHANGED <<execLog, unhandled>>
    /\ UNCHANGED netVars

\* Script code calls c.resolve(x).
StaticResolve ==
    /\ \E c \in Receivers : \E x \in ResolveArgs :
        \E ctor \in CtorReads(x) : \E kind \in ThenKindsOf(x) :
        \E s1 \in {promise_resolve(S, c, x, ctor, kind)} :
           /\ Commit(s1)
           /\ last' = StaticOp("Promise.resolve", c, ctor,
                               IF s1.ret.ok THEN s1.ret.val.n ELSE 0, x, kind, s1.ret)
    /\ UNCHANGED <<stack, execLog, unhandled>>
    /\ UNCHANGED netVars

\* Script code calls c.reject(x).
StaticReject ==
    /\ \E c \in Receivers : \E x \in RejectArgs :
        \E s1 \in {promise_reject(S, c, x)} :
           /\ Commit(s1)
           /\ last' = StaticOp("Promise.reject", c, Ok(Null),
                               IF s1.ret.ok THEN s1.ret.val.n ELSE 0, x, "none", s1.ret)
    /\ UNCHANGED <<stack, execLog, unhandled>>
    /\ UNCHANGED netVars

\* Script code that constructs promises, rejects them and calls Promise.reject.
NextReject ==
    \/ Construct
    \/ ConstructNonFunction
    \/ ExecutorReturn
    \/ CallReject
    \/ StaticReject

SpecReject == Init /\ [][NextReject]_vars

\* Script code that calls the statics, and the host loop's jobs.
NextStatic ==
    \/ StaticResolve
    \/ StaticReject
    \/ RunJob

SpecStatic == Init /\ [][NextStatic]_vars

-----------------------------------------------------------------------------
(* The constructor called with an argument list *)

\* The record of a constructor call: the step's record, with the arguments.
ArgsOp(args, ret) ==
    [op |-> "new Promise", k |-> 0, p |-> 0,
     arg |-> IF args = <<>> THEN Null ELSE args[1],
     latch |-> FALSE, kind |-> "none", ret |-> ret, args |-> args]

\* The argument lists script code constructs a promise with: none, one
\* argument that is or is not a function, two arguments.
ArgumentLists ==
    {<<>>, <<ScriptFunction>>, <<ScriptFunction, Num(1)>>, <<Num(1), ScriptFunction>>}
        \cup {<<v>> : v \in NonFunctions}

\* new Promise(...args) up to the call of the executor, which then runs until
\* ExecutorReturn or ExecutorThrow.
ConstructArgs ==
    /\ Len(stack) < MaxStack
    /\ \E args \in ArgumentLists :
        \E s1 \in {promise_args(S, args)} :
           /\ Commit(s1)
           /\ stack' = IF s1.ret.ok
                       THEN Append(stack, [promise |-> Len(s1.promises),
                                           k |-> Len(s1.fns)])
                       ELSE stack
           /\ last' = ArgsOp(args, s1.ret)
    /\ UNCHANGED <<execLog, unhandled>>
    /\ UNCHANGED netVars

\* Script code that constructs promises and settles them, until the program
\* aborts.
NextArgs ==
    /\ ~panicked
    /\ \/ ConstructArgs
       \/ ExecutorReturn
       \/ CallReject

SpecArgs == Init /\ [][NextArgs]_vars

-----------------------------------------------------------------------------
(* A capability executor handed to a constructor written in script *)

\* The arguments a constructor can call the executor with.
ExecutorArgs == {NullFn, ResolveFn(1), RejectFn(1), IdFn}

\* new_promise_capability makes the executor with both slots Null
\* (lines 201-203).
NewExecutor ==
    /\ capExec.log # <<>>
    /\ capExec' = [resolve |-> NullFn, reject |-> NullFn, log |-> <<>>]
    /\ last' = Op("newExecutor", 0, 0, Null, FALSE, "none", Ok(Null))
    /\ UNCHANGED promiseVars
    /\ UNCHANGED <<execLog, queue, buffer, registered, closed, source, parsed, nextLog, delivLog, mailbox,
                   host, handled>>

\* The constructor calls the executor with two arguments.
CallExecutor ==
    /\ Len(capExec.log) < MaxExecutorCalls
    /\ \E resolve \in ExecutorArgs : \E reject \in ExecutorArgs :
        \E r \in {get_capabilities_executor(
                      [resolve |-> capExec.resolve, reject |-> capExec.reject],
                      resolve, reject)} :
           /\ capExec' = [resolve |-> r.executor.resolve,
                          reject |-> r.executor.reject,
                          log |-> Append(capExec.log, [resolve |-> resolve,
                                                       reject |-> reject,
                                                       ret |-> r.ret])]
           /\ last' = Op("executor", 0, 0, Null, FALSE, "none", r.ret)
    /\ UNCHANGED promiseVars
    /\ UNCHANGED <<execLog, queue, buffer, registered, closed, source, parsed, nextLog, delivLog, mailbox,
                   host, handled>>

NextCap ==
    \/ NewExecutor
    \/ CallExecutor

SpecCap == Init /\ [][NextCap]_vars

-----------------------------------------------------------------------------
(* The host loop: the job queue drained between reactor events *)

HostCommit(s) ==
    /\ Len(s.promises) <= MaxHostPromises
    /\ Len(s.fns) <= MaxHostFns
    /\ Apply(s)

\* What the reactor posts: an accepted value or an error.
HostOutcomes == {Ok(Num(1)), Err(DeliveryError)}

\* drain_until_idle_or_quiescent taking reactor events with jobs still queued.
host_quiescent_ignores_jobs(js) == TRUE

\* drain_until_idle_or_quiescent: the loop turns to the reactor only when the
\* job queue is empty.
host_quiescent(js) == js = <<>>

\* Script code calls next() on the endpoint.
HostNext ==
    /\ host = "run"
    /\ \E r \in {next(S, queue, buffer)} :
          /\ HostCommit(r.s)
          /\ queue' = r.queue
          /\ buffer' = r.buffer
          /\ nextLog' = IF r.s.ret.ok THEN Append(nextLog, r.s.ret.val.n) ELSE nextLog
          /\ last' = Op("next", 0, 0, Null, FALSE, "none", r.s.ret)
    /\ UNCHANGED <<stack, execLog, unhandled, registered, closed, source, parsed, delivLog>>
    /\ UNCHANGED hostVars

\* Script code calls q.then(v => v, e => e).
HostThen ==
    /\ host = "run"
    /\ \E q \in Promises :
        \E s1 \in {promise_proto_then(S, q, IdFn, IdFn)} :
           /\ HostCommit(s1)
           /\ last' = Op("then", 0, q, Null, FALSE, "none", s1.ret)
    /\ UNCHANGED <<stack, execLog, unhandled>>
    /\ UNCHANGED netVars

\* Script code calls Promise.reject(x).
HostReject ==
    /\ host = "run"
    /\ \E x \in RejectArgs :
        \E s1 \in {promise_reject(S, PromiseCtor, x)} :
           /\ HostCommit(s1)
           /\ last' = Op("Promise.reject", 0, IF s1.ret.ok THEN s1.ret.val.n ELSE 0,
                         x, FALSE, "none", s1.ret)
    /\ UNCHANGED <<stack, execLog, unhandled>>
    /\ UNCHANGED netVars

\* The reactor posts an event for the endpoint's token to the interpreter
\* thread; a host loop blocked on the reactor wakes up.
Arrive ==
    /\ registered
    /\ Len(mailbox) < MaxMailbox
    /\ \E outcome \in HostOutcomes :
          mailbox' = Append(mailbox, [outcome |-> outcome, stamp |-> Len(enqLog)])
    /\ host' = "run"
    /\ last' = Op("arrive", 0, 0, Null, FALSE, "none", Ok(Null))
    /\ UNCHANGED promiseVars
    /\ UNCHANGED <<execLog, queue, buffer, registered, closed, source, parsed, nextLog, delivLog, handled,
                   capExec>>

\* The host loop handles the oldest posted event: the producer side runs.
HostHandleEvent ==
    /\ host = "run"
    /\ host_quiescent(jobs)
    /\ mailbox # <<>>
    /\ \E r \in {deliver(S, queue, buffer, Head(mailbox).outcome)} :
          /\ HostCommit(r.s)
          /\ queue' = r.queue
          /\ buffer' = r.buffer
          /\ delivLog' = Append(delivLog, Head(mailbox).outcome)
          /\ last' = Op("deliver", 0, 0, Head(mailbox).outcome.val, FALSE, "none",
                        Ok(Null))
    /\ mailbox' = Tail(mailbox)
    /\ handled' = Append(handled, [stamp |-> Head(mailbox).stamp,
                                    executed |-> Len(execLog)])
    /\ UNCHANGED <<stack, execLog, unhandled, registered, closed, source, parsed, nextLog, host, capExec>>

\* The host loop blocks on the reactor for the next event.
HostBlock ==
    /\ host = "run"
    /\ host_quiescent(jobs)
    /\ mailbox = <<>>
    /\ host' = "blocked"
    /\ last' = Op("block", 0, 0, Null, FALSE, "none", Ok(Null))
    /\ UNCHANGED promiseVars
    /\ UNCHANGED <<execLog, queue, buffer, registered, closed, source, parsed, nextLog, delivLog, mailbox,
                   handled, capExec>>

NextHost ==
    \/ HostNext
    \/ HostThen
    \/ Arrive
    \/ HostHandleEvent
    \/ HostBlock
    \/ RunJob

SpecHost == Init /\ [][NextHost]_vars

\* drain_one with nothing in the way of the job: it allocates what it needs,
\* only script code is kept within bounds.
DrainJob == drain_one(FALSE)

\* Script code that makes rejected promises and chains on them, and the host
\* loop draining the job queue.
NextDrain ==
    \/ HostReject
    \/ HostThen
    \/ DrainJob

\* The host loop is fair to its own steps: it keeps draining the job queue.
SpecDrain == Init /\ [][NextDrain]_vars /\ WF_vars(DrainJob)

-----------------------------------------------------------------------------
(* Properties *)

Settled(p) == promises[p].state # "pending"

\* The jobs a step enqueued.
NewJobs == SubSeq(enqLog', Len(enqLog) + 1, Len(enqLog'))

\* The jobs a list of reactions yields when its promise settles with v.
JobsOf(reactions, v) ==
    [i \in 1..Len(reactions) |-> [reaction |-> reactions[i], argument |-> v]]

\* The last step was a call of a resolving function by script code.
ScriptCall(l) == l.op \in {"resolve", "reject"}

\* C1. Single settlement: once a promise is fulfilled or rejected, no step
\* (a call of any resolving function that targets it, made by script code, by
\* an executor error, by a reaction job or by thenable assimilation) changes
\* its state or its result.
C1_SingleSettlement ==
    [][\A p \in Promises :
          Settled(p) => /\ promises'[p].state = promises[p].state
                        /\ promises'[p].result = promises[p].result]_vars

\* C1 witness: a promise is settled, two pairs target it, and script code has
\* just called a function of one of them.
C1_Witness ==
    /\ ScriptCall(last)
    /\ Settled(last.p)
    /\ last.latch
    /\ \E k \in Fns : k # last.k /\ fns[k].promise = last.p /\ fns[k].held

\* C2. Latch idempotence: a call of either function of a pair whose latch is
\* already set returns Null and changes no promise, no pair and no queue, so
\* the outcome of any sequence of calls is the one of its first call.
C2_LatchIdempotence ==
    [][(ScriptCall(last') /\ fns[last'.k].resolved)
          => /\ last'.ret = Ok(Null)
             /\ promises' = promises
             /\ fns' = fns
             /\ jobs' = jobs
             /\ enqLog' = enqLog]_vars

\* C2 witness: resolve(1) came first and a later reject on the same pair was
\* swallowed: the promise is still fulfilled with 1.
C2_Witness ==
    /\ last.op = "reject"
    /\ last.latch
    /\ promises[last.p].state = "fulfilled"
    /\ promises[last.p].result = Num(1)

\* C3. A promise is pending iff both reaction slots hold Lists, and settled
\* iff both are Null; the slots never differ in kind.
C3_ReactionSlots ==
    \A p \in Promises :
        /\ promises[p].state = "pending"
              <=> (/\ promises[p].fulfillReactions.tag = "List"
                   /\ promises[p].rejectReactions.tag = "List")
        /\ promises[p].state \in {"fulfilled", "rejected"}
              <=> (/\ promises[p].fulfillReactions.tag = "Null"
                   /\ promises[p].rejectReactions.tag = "Null")

\* C3 witness: a settled promise that had reactions on both sides beside a
\* pending promise that has some.
C3_Witness ==
    \E p, q \in Promises :
        /\ promises[p].state = "rejected"
        /\ regLog[p].fulfill # <<>>
        /\ promises[q].state = "pending"
        /\ promises[q].fulfillReactions.items # <<>>

\* The ids of the reactions in a list, and in the jobs of a log.
ReactionIds(reactions) == {reactions[i].id : i \in 1..Len(reactions)}
JobIds(log) == {log[i].reaction.id : i \in 1..Len(log)}

\* The reactions a promise holds on the side it settles on in this step.
SettlingSide(p) ==
    IF promises'[p].state = "fulfilled"
    THEN promises[p].fulfillReactions.items
    ELSE promises[p].rejectReactions.items

\* The jobs of this step that carry a reaction of the given list, in order.
NewJobsOf(reactions) ==
    LET Mine(j) == j.reaction.id \in ReactionIds(reactions)
    IN SelectSeq(NewJobs, Mine)

\* Settling a promise enqueues one job per reaction of the settling side, in
\* registration order, each with the settlement value, behind the jobs that
\* were already queued.
C4_EnqueueOrder ==
    /\ \A p \in Promises :
          (promises[p].state = "pending" /\ promises'[p].state # "pending")
              => NewJobsOf(SettlingSide(p))
                    = JobsOf(SettlingSide(p), promises'[p].result)
    /\ \/ jobs' = jobs \o NewJobs
       \/ jobs # <<>> /\ jobs' = Tail(jobs) \o NewJobs

\* Jobs are executed in the order they were enqueued, and no reaction is
\* enqueued twice.
C4_ExecutionOrder ==
    /\ enqLog = execLog \o jobs
    /\ Cardinality(JobIds(enqLog)) = Len(enqLog)

\* C4. FIFO reactions: when a promise with reactions R1..Rn on the settling
\* side settles, exactly the n jobs (Ri, value) are enqueued, in the order
\* R1..Rn, and the queue runs them in that order; no reaction is enqueued twice.
C4_FifoReactions == [](C4_ExecutionOrder) /\ [][C4_EnqueueOrder]_vars

\* C4 witness: a promise that had two reactions registered on the fulfil side
\* is fulfilled and both of their jobs have run.
C4_Witness ==
    \E p \in Promises :
        /\ promises[p].state = "fulfilled"
        /\ Len(regLog[p].fulfill) = 2
        /\ ReactionIds(regLog[p].fulfill) \subseteq JobIds(execLog)

\* P and the promise Q its resolve function took as a thenable have the same
\* outcome.
SameOutcome(p) ==
    /\ promises[p].state = promises[adopted[p].q].state
    /\ promises[p].result = promises[adopted[p].q].result

\* C5 as stated: whenever the resolve function of P has taken another promise
\* Q as its resolution, whatever Q's `then` property is, P ends with Q's
\* outcome: P and Q are never settled differently.
C5_AdoptsAnyThenable ==
    \A p \in Promises :
        (adopted[p].q # 0 /\ Settled(p) /\ Settled(adopted[p].q)) => SameOutcome(p)

\* C5, amended. Thenable assimilation: a promise P whose resolve function,
\* called with its latch unset, took another promise Q whose `then` is the
\* intrinsic one has Q's outcome once Q is settled and the job queue is
\* drained, and no promise is ever fulfilled with a promise as its result.
C5_Assimilation ==
    \A p \in Promises :
        /\ (/\ adopted[p].kind = "intrinsic"
            /\ Settled(adopted[p].q)
            /\ jobs = <<>>) => SameOutcome(p)
        /\ promises[p].state = "fulfilled" => ~has_promise_state(promises[p].result)

\* C5 witness: P was resolved with Q while Q was pending, Q was fulfilled
\* later, the jobs have run and P is fulfilled with Q's value.
C5_Witness ==
    \E p \in Promises :
        /\ adopted[p].kind = "intrinsic"
        /\ regLog[adopted[p].q].fulfill # <<>>
        /\ promises[adopted[p].q].state = "fulfilled"
        /\ jobs = <<>>
        /\ promises[p].state = "fulfilled"
        /\ promises[p].result = Num(1)

\* The promise the i-th next() call returned has the i-th delivery's outcome.
Served(i) ==
    /\ promises[nextLog[i]].state
          = (IF delivLog[i].ok THEN "fulfilled" ELSE "rejected")
    /\ promises[nextLog[i]].result = delivLog[i].val

Min(a, b) == IF a <= b THEN a ELSE b

\* C6. Endpoint exclusivity: after any interleaving of next() calls, producer
\* deliveries and close() calls, the waiting-reader queue or the buffer is
\* empty.
C6_EndpointExclusivity == queue = <<>> \/ buffer = <<>>

\* C6 witness: the endpoint had a waiting reader (a reaction was registered
\* on its promise while it was pending), buffers a delivery now, and has been
\* closed.
C6_Witness ==
    /\ buffer # <<>>
    /\ nextLog # <<>>
    /\ regLog[nextLog[1]].fulfill # <<>>
    /\ ~registered

\* C7. Endpoint FIFO: the promise returned by the i-th next() call is settled
\* with the outcome of the i-th delivery, for every i up to the smaller of
\* the two counts.
C7_EndpointFifo ==
    \A i \in 1..Min(Len(nextLog), Len(delivLog)) : Served(i)

\* C7 witness: two deliveries were buffered, a value then an error, and two
\* next() calls have taken them in that order.
C7_Witness ==
    /\ Len(nextLog) >= 2
    /\ Len(delivLog) >= 2
    /\ delivLog[1] = Ok(Num(1))
    /\ delivLog[2] = Err(DeliveryError)
    /\ last.op = "next"
    /\ buffer = <<>>
    /\ queue = <<>>

\* C8. No error escapes a resolving function: when resolve is called with its
\* latch unset and a resolution that carries the promise-state slot, and
\* reading or calling the resolution's `then` throws e, the call returns
\* normally and the target promise is rejected with e.
C8_NoErrorEscapes ==
    (/\ last.op = "resolve"
     /\ ~last.latch
     /\ last.kind \in {"getThrows", "callThrows"})
        => /\ last.ret.ok
           /\ promises[last.p].state = "rejected"
           /\ promises[last.p].result = ThenError

\* C9. Self-resolution: resolve called with its latch unset and with its own
\* promise rejects the promise with the "cannot resolve a promise with itself"
\* error, enqueues its reject reactions and no others, and neither reads nor
\* calls the promise's `then`.
C9_SelfResolution ==
    [][(/\ last'.op = "resolve"
        /\ ~fns[last'.k].resolved
        /\ last'.arg = PromiseRef(last'.p))
          => /\ promises'[last'.p].state = "rejected"
             /\ promises'[last'.p].result.msg = "cannot resolve a promise with itself"
             /\ NewJobs = JobsOf(promises[last'.p].rejectReactions.items,
                                 promises'[last'.p].result)
             /\ promises'[last'.p].thenReads = promises[last'.p].thenReads
             /\ promises'[last'.p].thenCalls = promises[last'.p].thenCalls
             /\ last'.ret = Ok(Null)]_vars

\* C9 witness: a promise with a registered reaction pair was resolved with
\* itself and the job of its reject reaction is queued.
C9_Witness ==
    /\ last.op = "resolve"
    /\ ~last.latch
    /\ last.arg = PromiseRef(last.p)
    /\ regLog[last.p].reject # <<>>
    /\ jobs # <<>>
    /\ jobs[Len(jobs)].reaction.kind = "reject"

\* C10. Executor errors: when the executor raises e the constructor returns
\* the promise; the promise is rejected with e if the latch of the
\* executor's pair was unset, and nothing changes if it was set.
C10_ExecutorErrors ==
    [][last'.op = "executorThrow"
          => /\ last'.ret = Ok(PromiseRef(last'.p))
             /\ IF fns[last'.k].resolved
                THEN /\ promises' = promises
                     /\ jobs' = jobs
                     /\ fns' = fns
                ELSE /\ promises'[last'.p].state = "rejected"
                     /\ promises'[last'.p].result = last'.arg
                     /\ fns'[last'.k].resolved]_vars

\* C10 witness: the executor resolved its promise with 1 and then raised; the
\* promise is fulfilled with 1.
C10_Witness ==
    /\ last.op = "executorThrow"
    /\ last.latch
    /\ promises[last.p].state = "fulfilled"
    /\ promises[last.p].result = Num(1)

\* The k-th job executed is the k-th job enqueued.
C11_ExecutedInEnqueueOrder ==
    /\ Len(execLog) <= Len(enqLog)
    /\ \A i \in 1..Len(execLog) : execLog[i] = enqLog[i]

\* A step that executes a job takes the head of the queue and leaves the jobs
\* it enqueues behind every job that was already queued.
C11_RunsHeadAppendsBehind ==
    execLog' # execLog
        => /\ jobs # <<>>
           /\ execLog' = Append(execLog, Head(jobs))
           /\ jobs' = Tail(jobs) \o NewJobs

\* C11. Job queue FIFO: if job A was enqueued before job B then A is executed
\* before B, also when B was enqueued by a job while it ran: such a job runs
\* after every job already in the queue.
C11_JobQueueFifo ==
    [](C11_ExecutedInEnqueueOrder) /\ [][C11_RunsHeadAppendsBehind]_vars

\* C11 witness: a job has just run and settled a promise that had a reaction
\* registered; the job of that reaction sits at the tail of the queue, behind
\* an older job.
C11_Witness ==
    /\ last.op = "job"
    /\ Len(jobs) >= 2
    /\ last.p # 0
    /\ jobs[Len(jobs)].reaction.id
          \in ReactionIds(regLog[last.p].fulfill) \cup ReactionIds(regLog[last.p].reject)
    /\ jobs[1].reaction.id
          \notin ReactionIds(regLog[last.p].fulfill) \cup ReactionIds(regLog[last.p].reject)

\* The i-th job enqueued is eventually the i-th job executed.
C12_EventuallyExecuted ==
    \A i \in 1..(2 * MaxHostPromises) :
        [](Len(enqLog) >= i => <>(Len(execLog) >= i /\ execLog[i] = enqLog[i]))

\* No job is executed twice, and none is executed that was not enqueued.
C12_AtMostOnce ==
    /\ Cardinality(JobIds(execLog)) = Len(execLog)
    /\ JobIds(execLog) \subseteq JobIds(enqLog)

\* A job that returns an error goes to the unhandled-error hook, one that
\* returns normally does not, and either way the jobs behind it stay queued in
\* their order.
C12_ErrorsToHook ==
    execLog' # execLog
        => /\ unhandled' = (IF last'.ret.ok THEN unhandled ELSE unhandled + 1)
           /\ jobs' = Tail(jobs) \o NewJobs

\* C12. Under a fair host loop every enqueued job is eventually executed,
\* exactly once (no cancellation, no deduplication, no priority); a job that
\* returns an error is handed to the host unhandled-error hook and neither
\* prevents nor reorders the execution of the jobs behind it.
C12_EveryJobRunsOnce ==
    /\ C12_EventuallyExecuted
    /\ [](C12_AtMostOnce)
    /\ [][C12_ErrorsToHook]_vars

\* C12 witness: of two jobs with the same argument the first returned an
\* error, which went to the hook, and the second has run normally after it.
C12_Witness ==
    /\ unhandled = 1
    /\ Len(execLog) = 2
    /\ execLog[1].argument = execLog[2].argument
    /\ last.op = "job"
    /\ last.ret.ok
    /\ jobs = <<>>

\* Every job enqueued before an event arrived had run when the event was
\* handled.
C13_JobsBeforeLaterEvents ==
    \A i \in 1..Len(handled) : handled[i].executed >= handled[i].stamp

\* The host loop handles an event, and blocks on the reactor, only with an
\* empty job queue.
C13_ReactorOnlyWhenIdle ==
    (handled' # handled \/ (host' = "blocked" /\ host # "blocked")) => jobs = <<>>

\* C13. Microtasks before later I/O: a job enqueued at time t runs before the
\* handling of any reactor event that arrives after t; the host loop blocks
\* on the reactor only when the job queue is empty.
C13_MicrotasksBeforeIo ==
    /\ [](C13_JobsBeforeLaterEvents)
    /\ [](host = "blocked" => jobs = <<>>)
    /\ [][C13_ReactorOnlyWhenIdle]_vars

\* C13 witness: an event arrived while a job was queued and was handled
\* after the job had run; the host loop has blocked since.
C13_Witness ==
    /\ \E i \in 1..Len(handled) : handled[i].stamp >= 1 /\ handled[i].executed >= 1
    /\ host = "blocked"
    /\ Len(execLog) >= 1

\* The last step called the reject function of a pair whose latch was unset,
\* or called reject on the Promise constructor.
C14_Rejects(l, wasResolved) ==
    \/ l.op = "reject" /\ ~wasResolved
    \/ l.op = "Promise.reject" /\ l.c = PromiseCtor

\* A rejection leaves the target rejected with the reason itself, reads and
\* calls no `then`, and Promise.reject returns a promise allocated by the call.
C14_RejectsWithReason ==
    (last'.op \in {"reject", "Promise.reject"}
        /\ C14_Rejects(last', last'.op = "reject" /\ fns[last'.k].resolved))
        => /\ last'.ret.ok
           /\ last'.p \in 1..Len(promises')
           /\ promises'[last'.p].state = "rejected"
           /\ promises'[last'.p].result = last'.arg
           /\ \A q \in Promises :
                 /\ promises'[q].thenReads = promises[q].thenReads
                 /\ promises'[q].thenCalls = promises[q].thenCalls
           /\ jobs' = jobs \o NewJobs
           /\ last'.op = "Promise.reject"
                 => /\ last'.ret.val = PromiseRef(Len(promises) + 1)
                    /\ Len(promises') = Len(promises) + 1
                    /\ last'.ret.val # last'.arg

\* A promise rejected with a promise keeps that promise as its result,
\* whatever happens to the reason later.
C14_KeepsReason ==
    \A p \in Promises :
        (promises[p].state = "rejected" /\ has_promise_state(promises[p].result))
            => /\ promises'[p].state = "rejected"
               /\ promises'[p].result = promises[p].result

\* C14. Rejection never assimilates: the reject function of a promise, and
\* Promise.reject, given a reason that is itself a promise (pending or
\* settled), reject the target at once with that promise object as the
\* result; the reason's `then` is never read, the target never takes the
\* reason's outcome, and Promise.reject returns a fresh promise distinct from
\* its argument.
C14_RejectionNeverAssimilates ==
    /\ [][C14_RejectsWithReason]_vars
    /\ [][C14_KeepsReason]_vars
    /\ [](\A p \in Promises : adopted[p].q = 0)

\* C14 witness: Promise.reject was given a promise that the reject function
\* had rejected with a pending promise as the reason.
C14_Witness ==
    /\ last.op = "Promise.reject"
    /\ last.c = PromiseCtor
    /\ has_promise_state(last.arg)
    /\ promises[last.arg.n].state = "rejected"
    /\ has_promise_state(promises[last.arg.n].result)
    /\ promises[promises[last.arg.n].result.n].state = "pending"
    /\ promises[last.p].result = last.arg

\* C15. Constructing a Promise with an executor argument that is not a
\* function fails at once with the "executor must be a function" error: no
\* promise object is returned, no resolving functions are created or called,
\* and no job is enqueued.
C15_NonFunctionExecutor ==
    [][(last'.op = "new Promise" /\ type_of(last'.arg) # "function")
          => /\ last'.ret = Err(new_error("executor must be a function"))
             /\ promises' = promises
             /\ fns' = fns
             /\ stack' = stack
             /\ jobs' = jobs
             /\ enqLog' = enqLog]_vars

\* C15 witness: new Promise was given a pending promise as the executor and
\* returned the error.
C15_Witness ==
    /\ last.op = "new Promise"
    /\ has_promise_state(last.arg)
    /\ promises[last.arg.n].state = "pending"
    /\ ~last.ret.ok

\* The call was C.resolve(x) on the Promise constructor with an x whose
\* constructor property could be read.
C16_Called(l) ==
    /\ l.op = "Promise.resolve"
    /\ l.c = PromiseCtor
    /\ l.ctor.ok

\* C16. Promise.resolve pass-through: C.resolve(x) for a promise x whose
\* constructor property is C returns x itself, builds no capability and
\* enqueues no job; for every other x it returns a fresh promise, distinct
\* from x, that has been resolved with x.
C16_PassThrough ==
    [][C16_Called(last')
          => IF has_promise_state(last'.arg) /\ last'.ctor.val = last'.c
             THEN /\ last'.ret = Ok(last'.arg)
                  /\ promises' = promises
                  /\ fns' = fns
                  /\ jobs' = jobs
                  /\ enqLog' = enqLog
             ELSE /\ last'.ret = Ok(PromiseRef(Len(promises) + 1))
                  /\ last'.ret.val # last'.arg
                  /\ IF has_promise_state(last'.arg)
                     THEN adopted'[Len(promises) + 1].q = last'.arg.n
                     ELSE /\ promises'[Len(promises) + 1].state = "fulfilled"
                          /\ promises'[Len(promises) + 1].result = last'.arg]_vars

\* next() has just made a capability: the object it returned waits at the
\* tail of the queue.
C17_FreshCapability ==
    /\ last.op = "next"
    /\ last.ret.ok
    /\ queue # <<>>
    /\ queue[Len(queue)] = last.ret.val.n

\* C17 as stated: the object new_promise_capability returns has a `promise`
\* slot beside its `resolve` and `reject` slots.
C17_CapabilityRecord ==
    C17_FreshCapability
        => {"promise", "resolve", "reject"} \subseteq slot_names(promises[last.ret.val.n])

\* The resolve and reject slots of promise p hold the two functions of one
\* pair made for p.
C17_HoldsOwnPair(p) ==
    \E k \in Fns :
        /\ fns[k].promise = p
        /\ promises[p].resolve = ResolveFn(k)
        /\ promises[p].reject = RejectFn(k)

\* The object returned is the constructed promise itself, carrying the pair
\* the constructor passed to the executor in its resolve and reject slots.
C17_CapabilityIsPromise ==
    /\ C17_FreshCapability
          => /\ last.ret.val = PromiseRef(Len(promises))
             /\ promises[last.ret.val.n].state = "pending"
             /\ "promise" \notin slot_names(promises[last.ret.val.n])
    /\ \A p \in Promises : C17_HoldsOwnPair(p)

\* Calling the resolve slot of a waiting capability with a value fulfils the
\* promise with it, calling its reject slot with an error rejects it.
C17_SlotsSettle ==
    (delivLog' # delivLog /\ queue # <<>>)
        => LET c == Head(queue)
               o == delivLog'[Len(delivLog')]
           IN /\ promises'[c].state = (IF o.ok THEN "fulfilled" ELSE "rejected")
              /\ promises'[c].result = o.val

\* C17, amended. new_promise_capability returns the constructed promise
\* itself (there is no `promise` slot), with its resolve and reject slots set
\* to the two callables the constructor passed to the executor, never Null;
\* calling that resolve(v) with a non-promise v fulfils the promise with v,
\* calling that reject(e) rejects it with e.
C17_Capability == [](C17_CapabilityIsPromise) /\ [][C17_SlotsSettle]_vars

\* C17 witness: a capability made by next() had a reaction registered while
\* it waited, and the producer's call of its reject slot has rejected it.
C17_Witness ==
    /\ last.op = "deliver"
    /\ nextLog # <<>>
    /\ regLog[nextLog[1]].reject # <<>>
    /\ promises[nextLog[1]].state = "rejected"
    /\ promises[nextLog[1]].result = DeliveryError

\* This step is an invocation of the executor after its first.
C18_LaterCall ==
    /\ capExec.log # <<>>
    /\ Len(capExec'.log) = Len(capExec.log) + 1

\* The invocation returned a type error and left both slots as they were.
C18_Refused ==
    /\ capExec'.log[Len(capExec'.log)].ret = Err(new_error("type error"))
    /\ capExec'.resolve = capExec.resolve
    /\ capExec'.reject = capExec.reject

\* C18 as stated: whatever the arguments of the first call were, any second
\* invocation of the same capability executor returns a type error and
\* leaves the stored resolve and reject unchanged.
C18_SingleShotAlways == [][C18_LaterCall => C18_Refused]_vars

\* C18, amended. The capability executor is single-shot once it holds a
\* callable: when the first call passed at least one argument that is not
\* Null, every later invocation returns a type error and leaves the stored
\* resolve and reject unchanged.
C18_SingleShot ==
    [][(C18_LaterCall /\ (capExec.log[1].resolve # NullFn
                            \/ capExec.log[1].reject # NullFn))
          => C18_Refused]_vars

\* C18 witness: the first call passed Null and a reject function, the second
\* two other callables; the second was refused and the slots are the first's.
C18_Witness ==
    /\ Len(capExec.log) = 2
    /\ capExec.log[1].resolve = NullFn
    /\ capExec.log[1].reject = RejectFn(1)
    /\ capExec.log[2].resolve = IdFn
    /\ ~capExec.log[2].ret.ok
    /\ capExec.resolve = NullFn
    /\ capExec.reject = RejectFn(1)

\* What a call of next() does, by the state of the buffer.
C19_NextStep ==
    nextLog' # nextLog
        => IF buffer # <<>>
           THEN /\ last'.ret = Ok(PromiseRef(Head(buffer)))
                /\ Settled(Head(buffer))
                /\ buffer' = Tail(buffer)
                /\ queue' = queue
                /\ promises' = promises
                /\ fns' = fns
           ELSE /\ last'.ret = Ok(PromiseRef(Len(promises) + 1))
                /\ Len(promises') = Len(promises) + 1
                /\ promises'[Len(promises) + 1].state = "pending"
                /\ queue' = Append(queue, Len(promises) + 1)
                /\ buffer' = buffer

\* A promise waiting in the queue is settled by no step but a delivery that
\* finds it at the head.
C19_WaitsForDelivery ==
    \A i \in 1..Len(queue) :
        promises'[queue[i]].state # "pending" => (delivLog' # delivLog /\ i = 1)

\* C19. next() on a valid endpoint: with a buffer that is not empty it
\* removes and returns the buffer's head, a promise already settled, creates
\* no capability and leaves the queue unchanged; with an empty buffer it
\* creates a fresh pending promise, appends it at the tail of the queue,
\* leaves the buffer unchanged and returns that promise, which stays pending
\* until a producer delivery reaches it.
C19_Next ==
    /\ [][C19_NextStep]_vars
    /\ [][C19_WaitsForDelivery]_vars
    /\ [](\A i \in 1..Len(queue) : promises[queue[i]].state = "pending")

\* C19 witness: the first next() took a settled promise from the buffer, the
\* second has just made a pending one that now waits alone in the queue.
C19_Witness ==
    /\ last.op = "next"
    /\ Len(nextLog) = 2
    /\ Len(delivLog) = 1
    /\ Settled(nextLog[1])
    /\ queue = <<nextLog[2]>>
    /\ promises[nextLog[2]].state = "pending"

\* The promise record pr has the outcome o.
C20_SettledWith(pr, o) ==
    /\ pr.state = (IF o.ok THEN "fulfilled" ELSE "rejected")
    /\ pr.result = o.val

\* What a delivery does, by the state of the queue.
C20_DeliveryStep ==
    delivLog' # delivLog
        => LET o == delivLog'[Len(delivLog')]
           IN IF queue # <<>>
              THEN /\ queue' = Tail(queue)
                   /\ buffer' = buffer
                   /\ C20_SettledWith(promises'[Head(queue)], o)
                   /\ Len(promises') = Len(promises)
                   /\ \A i \in 2..Len(queue) : promises'[queue[i]] = promises[queue[i]]
              ELSE /\ queue' = queue
                   /\ buffer' = Append(buffer, Len(promises) + 1)
                   /\ Len(promises') = Len(promises) + 1
                   /\ C20_SettledWith(promises'[Len(promises) + 1], o)

\* One next() and one delivery of a value, the jobs drained: queue and buffer
\* are empty and the promise next() returned is fulfilled with the value.
C20_NextThenDelivery ==
    (/\ Len(nextLog) = 1
     /\ Len(delivLog) = 1
     /\ delivLog[1].ok
     /\ jobs = <<>>)
        => /\ queue = <<>>
           /\ buffer = <<>>
           /\ promises[nextLog[1]].state = "fulfilled"
           /\ promises[nextLog[1]].result = delivLog[1].val

\* C20. Producer delivery: with a queue that is not empty a delivery removes
\* exactly the head waiting capability, resolves it with V or rejects it with
\* E, and leaves the buffer and every other queued capability unchanged; with
\* an empty queue it appends exactly one promise already settled with V or E
\* at the tail of the buffer and leaves the queue unchanged.  next() on an
\* idle endpoint followed by one delivery of V leaves queue and buffer empty
\* and, after the jobs drain, the returned promise fulfilled with V.
C20_ProducerDelivery == [][C20_DeliveryStep]_vars /\ [](C20_NextThenDelivery)

\* C20 witness: two readers waited, one delivery has settled the first and
\* left the second waiting.
C20_Witness ==
    /\ last.op = "deliver"
    /\ Len(nextLog) = 2
    /\ Len(delivLog) = 1
    /\ Settled(nextLog[1])
    /\ queue = <<nextLog[2]>>
    /\ promises[nextLog[2]].state = "pending"
    /\ buffer = <<>>

-----------------------------------------------------------------------------
(* C21: next() on a receiver without the queue slot *)

\* The step is a call of next() on a receiver that lacks `net server queue`.
C21_ForeignNext(l) == l.op = "next" /\ ~has_slot(l.this, "net server queue")

\* C21: next() called on a receiver that does not carry the `net server
\* queue` slot returns the "invalid receiver" error and changes nothing: no
\* promise and no resolving pair is created, neither list of the endpoint is
\* modified, no job is enqueued and the registration is untouched.
C21_InvalidReceiver ==
    [][C21_ForeignNext(last')
       => /\ last'.ret = Err(InvalidReceiver)
          /\ promises' = promises
          /\ fns' = fns
          /\ jobs' = jobs
          /\ enqLog' = enqLog
          /\ queue' = queue
          /\ buffer' = buffer
          /\ nextLog' = nextLog
          /\ registered' = registered]_vars

\* C21 witness: next() was refused on a plain object while the endpoint had a
\* reader waiting and a job was queued.
C21_Witness ==
    /\ C21_ForeignNext(last)
    /\ ~last.ret.ok
    /\ queue # <<>>
    /\ jobs # <<>>

-----------------------------------------------------------------------------
(* C22: next() after close() *)

\* The step is a call of next() on the endpoint after close() has returned.
C22_NextAfterClose == closed /\ last'.op = "next" /\ last'.this = Endpoint

\* C22 as stated: after close(), every next() on the endpoint returns a
\* pending promise, whatever state the endpoint was closed in.
C22_PendingAfterClose ==
    [][C22_NextAfterClose
       => /\ last'.ret.ok
          /\ promises'[last'.ret.val.n].state = "pending"]_vars

\* After close(), next() with an empty buffer returns a fresh pending promise
\* that it has pushed at the back of the queue; with a non-empty buffer it
\* returns the buffer's head, which is settled.
C22_NextOfClosed ==
    [][C22_NextAfterClose
       => /\ last'.ret.ok
          /\ IF buffer = <<>>
             THEN /\ last'.ret.val.n = Len(promises) + 1
                  /\ promises'[last'.ret.val.n].state = "pending"
                  /\ queue' = Append(queue, last'.ret.val.n)
                  /\ buffer' = <<>>
             ELSE /\ last'.ret.val.n = Head(buffer)
                  /\ Settled(Head(buffer))
                  /\ promises' = promises
                  /\ buffer' = Tail(buffer)
                  /\ queue' = queue]_vars

\* Once closed, the queue only grows and no promise in it is ever settled.
C22_ClosedQueueStaysPending ==
    /\ [](closed => \A i \in 1..Len(queue) : promises[queue[i]].state = "pending")
    /\ [][closed => /\ Len(queue') >= Len(queue)
                    /\ SubSeq(queue', 1, Len(queue)) = queue]_vars

\* C22 (amended): after close() has returned on an endpoint, a next() call
\* made while the buffer is empty returns a fresh promise that is pending and
\* never settles; a next() call made while the buffer is non-empty returns the
\* buffer's head, a promise the producer settled before close().
C22_AfterClose == C22_NextOfClosed /\ C22_ClosedQueueStaysPending

\* C22 witness: the endpoint was closed with a settled promise buffered;
\* next() has since returned that promise and then a fresh pending one, on
\* which a reaction was registered.
C22_Witness ==
    /\ closed
    /\ Len(delivLog) = 1
    /\ Len(nextLog) = 2
    /\ Settled(nextLog[1])
    /\ queue = <<nextLog[2]>>
    /\ promises[nextLog[2]].state = "pending"
    /\ last.op = "then"
    /\ last.p = nextLog[2]

-----------------------------------------------------------------------------
(* C23: close() settles nothing *)

\* close() on the endpoint returns Null, removes the token and touches neither
\* list, no promise, no resolving pair and no job.
C23_CloseFrame ==
    [][last'.op = "close" /\ last'.this = Endpoint
       => /\ last'.ret = Ok(Null)
          /\ ~registered'
          /\ queue' = queue
          /\ buffer' = buffer
          /\ promises' = promises
          /\ fns' = fns
          /\ jobs' = jobs
          /\ nextLog' = nextLog]_vars

\* Once closed, a promise that next() returned and that is pending stays
\* pending.
C23_PendingStaysPending ==
    [][closed
       => \A i \in 1..Len(nextLog) :
             promises[nextLog[i]].state = "pending"
                => promises'[nextLog[i]].state = "pending"]_vars

\* C23: close() only deregisters the endpoint's token: it leaves the queue and
\* the buffer unchanged and settles no promise, so every promise an earlier
\* next() returned that was pending at close() stays pending ever after.
C23_CloseKeepsPending == C23_CloseFrame /\ C23_PendingStaysPending

\* C23 witness: close() has just returned on an endpoint whose queue holds a
\* pending promise that next() returned and on which a reaction is registered.
C23_Witness ==
    /\ last.op = "close"
    /\ last.this = Endpoint
    /\ last.ret = Ok(Null)
    /\ queue # <<>>
    /\ Head(queue) = nextLog[1]
    /\ promises[nextLog[1]].state = "pending"
    /\ regLog[nextLog[1]].fulfill # <<>>

-----------------------------------------------------------------------------
(* C24: close() is idempotent *)

\* The token stays out of agent.mio_map once close() has returned.
C24_StaysDeregistered == [](closed => ~registered)

\* A further close() returns Null and changes neither the map nor the lists.
C24_FurtherClose ==
    [][closed /\ last'.op = "close" /\ last'.this = Endpoint
       => /\ last'.ret = Ok(Null)
          /\ registered' = registered
          /\ queue' = queue
          /\ buffer' = buffer
          /\ promises' = promises
          /\ jobs' = jobs]_vars

\* C24: close() is idempotent: a second or further close() on the same
\* endpoint returns Null without error and leaves the registration map, the
\* queue and the buffer exactly as the first close() left them.
C24_CloseIdempotent == C24_StaysDeregistered /\ C24_FurtherClose

\* C24 witness: close() has just returned Null on an endpoint that was already
\* closed, with a promise still waiting in the queue.
C24_Witness ==
    /\ last.op = "close"
    /\ last.this = Endpoint
    /\ last.closed
    /\ last.ret = Ok(Null)
    /\ ~registered
    /\ queue # <<>>

-----------------------------------------------------------------------------
(* C25: the endpoint's state machine *)

\* The class of the endpoint, from its two lists and whether it was closed.
C25_Class(q, b, c) ==
    IF c THEN "closed"
    ELSE IF q # <<>> THEN "waiting"
    ELSE IF b # <<>> THEN "buffered"
    ELSE "idle"

\* The transitions of one operation: from, operation, to.
C25_Transitions ==
    {<<"idle", "next", "waiting">>,
     <<"waiting", "next", "waiting">>,
     <<"buffered", "next", "buffered">>,
     <<"buffered", "next", "idle">>,
     <<"waiting", "deliver", "waiting">>,
     <<"waiting", "deliver", "idle">>,
     <<"idle", "deliver", "buffered">>,
     <<"buffered", "deliver", "buffered">>,
     <<"idle", "close", "closed">>,
     <<"waiting", "close", "closed">>,
     <<"buffered", "close", "closed">>}

\* The step is an operation on the endpoint: the producer's run, or next() or
\* close() called on the endpoint itself.
C25_OnEndpoint(l) ==
    \/ l.op = "deliver"
    \/ l.op \in {"next", "close"} /\ l.this = Endpoint

\* C25: with an endpoint classed as open-idle (both lists empty), open-waiting
\* (queue non-empty), open-buffered (buffer non-empty) or closed, every
\* operation on an open endpoint takes one of the listed transitions, in
\* particular none goes from waiting to buffered or from buffered to waiting;
\* a closed endpoint stays closed; and a step that is no operation on the
\* endpoint leaves its class alone.
C25_StateMachine ==
    [][LET from == C25_Class(queue, buffer, closed)
           to == C25_Class(queue', buffer', closed')
       IN  IF from = "closed" THEN to = "closed"
           ELSE IF C25_OnEndpoint(last') THEN <<from, last'.op, to>> \in C25_Transitions
           ELSE to = from]_vars

\* C25 witness: the endpoint was closed after two deliveries and two next()
\* calls of which the first got a promise that is settled, with both lists
\* empty again: it has been buffered or waiting, and has gone back to idle.
C25_Witness ==
    /\ last.op = "close"
    /\ last.this = Endpoint
    /\ ~last.closed
    /\ closed
    /\ Len(delivLog) = 2
    /\ Len(nextLog) = 2
    /\ Settled(nextLog[1])
    /\ queue = <<>>
    /\ buffer = <<>>

-----------------------------------------------------------------------------
(* The parser's claims: a statement's tree against the trees of its parts *)

\* The tree of an expression, of a block and of a statement parsed on its own.
ParsedExpression(e) == parse_expression(NewParser(e)).node
ParsedBlock(body) == parse_block_statement(NewParser(TokensOfBlock(body)), "Block").node
ParsedStatement(st) ==
    parse_statement_list_item([toks |-> Tokens(st), lex |-> << {} >>]).node

\* The nodes parse returned for the top-level statements, the last one as the
\* statement it was before parse put its expression in parentheses.
StatementNodes ==
    LET items == parsed.node.kids
    IN  [i \in 1..Len(items) |->
            IF i = Len(items) /\ items[i].type = "ParenthesizedExpression"
            THEN ExpressionStatement(items[i].kids[1])
            ELSE items[i]]

\* The body of the block or function a top-level node is.
BodyOf(node) ==
    IF node.type = "BlockStatement" THEN node ELSE node.kids[Len(node.kids)]

\* Each statement of the source with the node parse returned for it: the
\* top-level statements, and those directly in a top-level block or function.
Sites ==
    {<<source[i], StatementNodes[i]>> : i \in 1..Len(source)}
        \cup UNION {{<<source[i].body[j], BodyOf(StatementNodes[i]).kids[j]>> :
                        j \in 1..Len(source[i].body)} :
                    i \in {k \in 1..Len(source) : source[k].t \in {"block", "function"}}}

\* The parser was run and returned a tree.
ParsedOk == parsed.ok

-----------------------------------------------------------------------------
(* C26: constant folding of if *)

\* The constants an if takes its consequent for, and its alternative for.
C26_ConstantTrue(test) ==
    \/ test.type = "NumberLiteral" /\ test.num # F64(0, 1)
    \/ test.type = "StringLiteral" /\ test.s # ""
    \/ test.type \in {"TrueLiteral", "ArrayLiteral", "ObjectLiteral"}

C26_ConstantFalse(test) ==
    \/ test.type = "NumberLiteral" /\ test.num = F64(0, 1)
    \/ test.type = "StringLiteral" /\ test.s = ""
    \/ test.type \in {"FalseLiteral", "NullLiteral"}
    \/ test.type = "UnaryExpression" /\ test.s = "Void"

\* What the claim has the parser emit for an if statement.
C26_Emitted(st) ==
    LET test == ParsedExpression(st.e)
        consequent == ParsedBlock(st.body)
        alternative == IF st.alt = <<>> THEN ExpressionStatement(NullLiteral)
                       ELSE ParsedStatement(st.alt[1])
    IN  IF C26_ConstantTrue(test) THEN consequent
        ELSE IF C26_ConstantFalse(test) THEN alternative
        ELSE IF st.alt = <<>> THEN IfStatement(test, consequent)
        ELSE IfElseStatement(test, consequent, alternative)

\* C26: when the test of an if statement parses to a constant the parser emits
\* no If node: it emits the consequent block for a non-zero number, a
\* non-empty string, true, an array literal or an object literal, and the
\* alternative (ExpressionStatement(NullLiteral) when there is no else) for 0,
\* the empty string, false, null or a void expression; any other test yields
\* IfStatement or IfElseStatement with test, consequent and alternative kept.
C26_IfFolding ==
    ParsedOk => \A site \in Sites : site[1].t = "if" => site[2] = C26_Emitted(site[1])

\* C26 witness: `if 1 - 1 { let a = 1; } else if a { }` was parsed; its test
\* folded to 0 and the if after else, an IfStatement, was emitted in its place.
C26_Witness ==
    /\ ParsedOk
    /\ Len(source) = 1
    /\ source[1].t = "if"
    /\ source[1].e = <<TNumber(1), TOperator("Sub"), TNumber(1)>>
    /\ source[1].body = <<LetStmt("a", <<TNumber(1)>>)>>
    /\ source[1].alt = <<IfStmt(<<TIdentifier("a")>>, <<>>, <<>>)>>
    /\ parsed.node.kids[1] = IfStatement(Identifier("a"), BlockStatement(<<>>, {}, FALSE))

-----------------------------------------------------------------------------
(* C27: constant folding of while *)

\* The constant falsy literals of the claim.
C27_ConstantFalsy(test) ==
    \/ test.type \in {"NullLiteral", "FalseLiteral"}
    \/ test.type = "UnaryExpression" /\ test.s = "Void"
    \/ test.type = "NumberLiteral" /\ test.num = F64(0, 1)
    \/ test.type = "StringLiteral" /\ test.s = ""

\* What the claim has the parser emit for a while statement.
C27_Emitted(st) ==
    LET test == ParsedExpression(st.e)
    IN  IF C27_ConstantFalsy(test) THEN ExpressionStatement(test)
        ELSE WhileStatement(test, ParsedBlock(st.body))

\* C27: a while statement whose test parses to a constant falsy literal (null,
\* false, a void expression, the number 0 or the empty string) is replaced by
\* ExpressionStatement(test) and its body is not in the tree; for every other
\* test the parser emits WhileStatement(test, body).
C27_WhileFolding ==
    ParsedOk => \A site \in Sites : site[1].t = "while" => site[2] = C27_Emitted(site[1])

\* C27 witness: `{ while 1 - 1 { let a = 1; a += 2; } }` was parsed; the block
\* holds ExpressionStatement(0) alone and declares nothing, the loop's body is
\* gone.
C27_Witness ==
    /\ ParsedOk
    /\ Len(source) = 1
    /\ source[1].t = "block"
    /\ Len(source[1].body) = 1
    /\ source[1].body[1].t = "while"
    /\ source[1].body[1].e = <<TNumber(1), TOperator("Sub"), TNumber(1)>>
    /\ Len(source[1].body[1].body) = 2
    /\ source[1].body[1].body[1] = LetStmt("a", <<TNumber(1)>>)
    /\ parsed.node.kids[1] =
           BlockStatement(<<ExpressionStatement(NumberLiteral(F64(0, 1)))>>, {}, FALSE)

-----------------------------------------------------------------------------
(* C28: what Parser::parse returns *)

\* The block parse_block_statement yields for the source at the top level.
TopLevelBlock == parse_block_statement(NewParser(TokensOfAll(source)), "TopLevel").node

\* The items of the claim: the parsed statements in source order, the last
\* one in parentheses when it is an expression statement.
C28_Items ==
    [i \in 1..Len(source) |->
        LET item == ParsedStatement(source[i])
        IN  IF i = Len(source) /\ item.type = "ExpressionStatement"
            THEN ParenthesizedExpression(item.kids[1])
            ELSE item]

\* C28: Parser::parse returns a BlockStatement with the top flag set whose
\* items are the parsed statements in source order, except that a last item
\* ExpressionStatement(e) is replaced by ParenthesizedExpression(e); the
\* earlier items and the declarations are those of the top-level block, and a
\* block whose last item is no expression statement is returned unchanged.
C28_ParseResult ==
    ParsedOk =>
        /\ parsed.node.type = "BlockStatement"
        /\ parsed.node.top
        /\ parsed.node.kids = C28_Items
        /\ parsed.node.decls = TopLevelBlock.decls
        /\ \A i \in 1..(Len(source) - 1) : parsed.node.kids[i] = TopLevelBlock.kids[i]
        /\ (source = <<>> \/ TopLevelBlock.kids[Len(source)].type # "ExpressionStatement")
               => parsed.node = TopLevelBlock

\* C28 witness: `let a = 1; a += 2;` was parsed; the declaration is kept as
\* the first item, the expression statement came back in parentheses, and
\* the block declares a.
C28_Witness ==
    /\ ParsedOk
    /\ source = <<LetStmt("a", <<TNumber(1)>>),
                  ExprStmt(<<TIdentifier("a"), TOperator("AddAssign"), TNumber(2)>>)>>
    /\ parsed.node =
           BlockStatement(
               <<LexicalInitialization("a", NumberLiteral(F64(1, 1))),
                 ParenthesizedExpression(
                     BinaryExpression(Identifier("a"), "Assign",
                         BinaryExpression(Identifier("a"), "Add",
                                          NumberLiteral(F64(2, 1)))))>>,
               {<<"a", TRUE>>}, TRUE)

-----------------------------------------------------------------------------
(* C29: compound assignment *)

\* Where the first op-assign token of an expression stands, 0 if it has none.
C29_At(e) ==
    LET at == {i \in 1..Len(e) : e[i].k = "Operator" /\ e[i].s \in DOMAIN OpAssign}
    IN  IF at = {} THEN 0 ELSE CHOOSE i \in at : \A j \in at : i <= j

C29_Lhs(e) == SubSeq(e, 1, C29_At(e) - 1)
C29_Rhs(e) == SubSeq(e, C29_At(e) + 1, Len(e))

\* The operator of the claim for each compound assignment token.
C29_Op(e) ==
    CASE e[C29_At(e)].s = "AddAssign" -> "Add"
      [] e[C29_At(e)].s = "SubAssign" -> "Sub"
      [] e[C29_At(e)].s = "MulAssign" -> "Mul"
      [] e[C29_At(e)].s = "PowAssign" -> "Pow"
      [] e[C29_At(e)].s = "DivAssign" -> "Div"
      [] e[C29_At(e)].s = "ModAssign" -> "Mod"

\* The tree the claim gives `lhs op= rhs`.
C29_Desugared(e) ==
    LET lhs == ParsedExpression(C29_Lhs(e))
        rhs == ParsedExpression(C29_Rhs(e))
    IN  BinaryExpression(lhs, "Assign", BinaryExpression(lhs, C29_Op(e), rhs))

\* The text `lhs = lhs op rhs`.
C29_Spelled(e) ==
    C29_Lhs(e) \o <<TOperator("Assign")>> \o C29_Lhs(e) \o <<TOperator(C29_Op(e))>>
        \o C29_Rhs(e)

\* C29: for each of +=, -=, *=, **=, /=, %= and a target lhs that is an
\* identifier or a member, `lhs op= rhs` parses to
\* BinaryExpression(lhs, Assign, BinaryExpression(lhs, op, rhs)), rhs being
\* the tree of the whole right-hand side; for a right-hand side that is one
\* operand this is the tree the text `lhs = lhs op rhs` parses to.
C29_CompoundAssignment ==
    ParsedOk =>
        \A site \in Sites :
            (site[1].t = "expr" /\ C29_At(site[1].e) > 1) =>
                /\ ParsedExpression(C29_Lhs(site[1].e)).type
                       \in {"Identifier", "MemberExpression", "ComputedMemberExpression"}
                /\ site[2] = ExpressionStatement(C29_Desugared(site[1].e))
                /\ C29_Rhs(site[1].e) \in UnitOperands
                       => site[2] = ParsedStatement(ExprStmt(C29_Spelled(site[1].e)))

\* C29 witness: `function f() { a[0] **= b.c; }` was parsed; the statement of
\* the body is a[0] = a[0] ** b.c.
C29_Witness ==
    /\ ParsedOk
    /\ Len(source) = 1
    /\ source[1].t = "function"
    /\ source[1].body =
           <<ExprStmt(<<TIdentifier("a"), T("LeftBracket"), TNumber(0), T("RightBracket"),
                        TOperator("PowAssign"),
                        TIdentifier("b"), T("Dot"), TIdentifier("c")>>)>>
    /\ BodyOf(parsed.node.kids[1]).kids[1] =
           ExpressionStatement(
               BinaryExpression(
                   ComputedMemberExpression(Identifier("a"), NumberLiteral(F64(0, 1))),
                   "Assign",
                   BinaryExpression(
                       ComputedMemberExpression(Identifier("a"), NumberLiteral(F64(0, 1))),
                       "Pow", MemberExpression(Identifier("b"), "c"))))

-----------------------------------------------------------------------------
(* C30: the declarations of a block *)

\* The statements that introduce a name in the block they stand in.
C30_Declares(st) == st.t \in {"let", "const", "function"}

\* The declarations the claim gives a block: the names of the let, const and
\* function declarations directly in it, a let name with true, the others
\* with false.
C30_Declared(body) ==
    {<<body[i].name, body[i].t = "let">> : i \in {k \in 1..Len(body) : C30_Declares(body[k])}}

\* A name is declared twice directly in one block, in this block or in a
\* block of one of its statements.
RECURSIVE C30_Duplicate(_)
C30_Duplicate(body) ==
    \/ \E i, j \in 1..Len(body) :
          /\ i < j
          /\ C30_Declares(body[i])
          /\ C30_Declares(body[j])
          /\ body[i].name = body[j].name
    \/ \E i \in 1..Len(body) :
          \/ C30_Duplicate(body[i].body)
          \/ body[i].alt # <<>> /\ C30_Duplicate(body[i].alt)

\* The blocks of a statement with the BlockStatement nodes of its tree: the
\* block itself, a function's body, the blocks of an if or a while that was
\* not folded, and the block an if was folded to.
C30_BlocksOf(st, node) ==
    IF st.t = "block" THEN {<<st.body, node>>}
    ELSE IF st.t = "function" THEN {<<st.body, BodyOf(node)>>}
    ELSE IF st.t = "while"
         THEN (IF node.type = "WhileStatement" THEN {<<st.body, node.kids[2]>>} ELSE {})
    ELSE IF st.t = "if"
         THEN (IF node.type = "IfStatement" THEN {<<st.body, node.kids[2]>>}
               ELSE IF node.type = "IfElseStatement"
                    THEN {<<st.body, node.kids[2]>>, <<st.alt[1].body, node.kids[3]>>}
               ELSE IF node.type = "BlockStatement"
                    THEN (IF C26_ConstantTrue(ParsedExpression(st.e))
                          THEN {<<st.body, node>>}
                          ELSE {<<st.alt[1].body, node>>})
               ELSE {})
    ELSE {}

\* The blocks of the source with their nodes: the program, and the blocks of
\* the statements at the top level and directly in a top-level block or
\* function.
C30_Blocks ==
    {<<source, parsed.node>>} \cup UNION {C30_BlocksOf(site[1], site[2]) : site \in Sites}

\* C30: the declarations of each BlockStatement are exactly the names that
\* let, const and function declarations introduce directly in that block,
\* not those of nested blocks nor of blocks that constant folding removed or
\* kept, a let name mapped to true and a const or function name to false; a
\* program that declares a name twice directly in one block fails to parse
\* with DuplicateBinding.
C30_BlockDeclarations ==
    /\ ParsedOk =>
           \A b \in C30_Blocks :
               /\ b[2].type = "BlockStatement"
               /\ b[2].decls = C30_Declared(b[1])
    /\ (parsed # NotParsed /\ C30_Duplicate(source)) =>
           /\ ~parsed.ok
           /\ parsed.err = "DuplicateBinding"

\* C30, the second part reached: `let a = 1; if 1 { const a = 2; function
\* a() { } }` was parsed and failed with DuplicateBinding: the block that folding keeps
\* declares a twice, while the a of the enclosing block did not count.
C30_DuplicateRefused ==
    /\ parsed # NotParsed
    /\ ~parsed.ok
    /\ parsed.err = "DuplicateBinding"
    /\ source = <<LetStmt("a", <<TNumber(1)>>),
                  IfStmt(<<TNumber(1)>>,
                         <<ConstStmt("a", <<TNumber(2)>>), FunctionStmt("a", <<>>)>>,
                         <<>>)>>

\* C30 witness: `let a = 1; if 1 { const a = 2; const b =
\* a; }` was parsed; the program declares a alone, as a let, and the block
\* kept by folding declares a and b as constants.
C30_Witness ==
    /\ ParsedOk
    /\ source = <<LetStmt("a", <<TNumber(1)>>),
                  IfStmt(<<TNumber(1)>>,
                         <<ConstStmt("a", <<TNumber(2)>>),
                           ConstStmt("b", <<TIdentifier("a")>>)>>,
                         <<>>)>>
    /\ parsed.node.decls = {<<"a", TRUE>>}
    /\ parsed.node.kids[2].type = "BlockStatement"
    /\ parsed.node.kids[2].decls = {<<"a", FALSE>>, <<"b", FALSE>>}

-----------------------------------------------------------------------------
(* C31: settlement is visible before any reaction *)

\* The slots of a settled promise whose result is the job's argument.
C31_Visible(slots, argument) ==
    /\ slots.state \in {"fulfilled", "rejected"}
    /\ slots.result = argument
    /\ slots.fulfillReactions = NullSlot
    /\ slots.rejectReactions = NullSlot

\* At the moment a reaction job of promise P was enqueued, P's slots showed
\* the settlement.
C31_AtEnqueue ==
    \A i \in 1..Len(enqLog) :
        /\ seenLog[i].of = enqLog[i].reaction.of
        /\ seenLog[i].of # 0
        /\ C31_Visible(seenLog[i], enqLog[i].argument)

\* Every job in the queue finds P's slots so whenever it is run.
C31_AtExecution ==
    \A i \in 1..Len(jobs) :
        C31_Visible(promises[jobs[i].reaction.of], jobs[i].argument)

\* C31: at the moment a reaction job for promise P is enqueued, and whenever it
\* executes, P's state is fulfilled or rejected, P's result equals the job's
\* argument, and both of P's reaction lists are Null.
C31_SettlementVisible == C31_AtEnqueue /\ C31_AtExecution

\* C31 witness: a reaction registered on a pending promise was enqueued by the
\* promise's rejection and its job has been run.
C31_Witness ==
    /\ execLog # <<>>
    /\ seenLog[1].state = "rejected"
    /\ execLog[1].reaction.kind = "reject"
    /\ execLog[1].reaction.id \in ReactionIds(regLog[execLog[1].reaction.of].reject)
    /\ promises[execLog[1].reaction.of].result = execLog[1].argument

-----------------------------------------------------------------------------
(* C32: what a reaction job calls *)

\* What a script handler gives when called with a value.
C32_HandlerResult(h, value) ==
    IF h.h = "id" THEN Ok(value)
    ELSE IF h.h = "ret" THEN Ok(h.val)
    ELSE Err(h.val)

\* A recorded call is the call of f with the argument.
C32_IsCall(call, f, argument) == call.f = f /\ call.arg = argument

\* The calls the claim gives the job of a reaction with a capability.
C32_Dispatch(reaction, value, calls) ==
    LET capability == promises[reaction.promise]
    IN  IF reaction.handler = NullFn
        THEN /\ Len(calls) = 1
             /\ C32_IsCall(calls[1],
                           IF reaction.kind = "fulfill" THEN capability.resolve
                           ELSE capability.reject, value)
        ELSE /\ Len(calls) = 2
             /\ C32_IsCall(calls[1], reaction.handler, value)
             /\ reaction.handler.h \in {"id", "ret", "throw"}
                    => calls[1].ret = C32_HandlerResult(reaction.handler, value)
             /\ C32_IsCall(calls[2],
                           IF calls[1].ret.ok THEN capability.resolve
                           ELSE capability.reject, calls[1].ret.val)

\* C32: the job of a reaction with a downstream capability calls exactly one of
\* the capability's resolve and reject, exactly once: with a Null handler
\* resolve(value) for kind "fulfill" and reject(value) otherwise; with a
\* handler, the handler once with the value and then resolve(r) when it
\* returned r, reject(e) when it threw e.
C32_JobDispatch ==
    (last.op = "job" /\ last.reaction.promise # 0) =>
        /\ C32_Dispatch(last.reaction, last.arg, last.calls)
        /\ Cardinality({i \in 1..Len(last.calls) :
                           last.calls[i].f \in {promises[last.reaction.promise].resolve,
                                                promises[last.reaction.promise].reject}}) = 1

\* C32 witness: the job of a reject reaction with a Null handler ran and
\* called the capability's reject with the value, which rejected the
\* capability's promise.
C32_Witness ==
    /\ last.op = "job"
    /\ last.reaction.promise # 0
    /\ last.reaction.handler = NullFn
    /\ last.reaction.kind = "reject"
    /\ Len(last.calls) = 1
    /\ C32_IsCall(last.calls[1], promises[last.reaction.promise].reject, Num(1))
    /\ promises[last.reaction.promise].state = "rejected"

-----------------------------------------------------------------------------
(* C33: errors of a reaction job *)

\* C33: a reaction job never returns an error to the job queue, so the
\* unhandled-error hook is never reached from a reaction job.
C33_JobNeverFails ==
    /\ last.op = "job" => last.ret.ok
    /\ unhandled = 0

-----------------------------------------------------------------------------
(* C34: sink reactions *)

\* A step is the run of the job of a sink reaction.
C34_SinkStep ==
    /\ Len(execLog') = Len(execLog) + 1
    /\ last'.reaction.promise = 0

\* C34: the job of a reaction whose promise slot is Null calls its handler
\* exactly once (and nothing else), settles no promise, returns success even
\* when the handler threw, and the unhandled-error hook is not invoked.
C34_SinkRunsForEffect ==
    [][C34_SinkStep =>
          /\ IF last'.reaction.handler = NullFn
             THEN last'.calls = <<>>
             ELSE /\ Len(last'.calls) = 1
                  /\ last'.calls[1].f = last'.reaction.handler
                  /\ last'.calls[1].arg = last'.arg
          /\ promises' = promises
          /\ last'.ret = Ok(Null)
          /\ unhandled' = unhandled]_vars

\* C34 witness: the job of a sink whose handler threw has run, returned
\* success, and the hook was never invoked.
C34_Witness ==
    /\ last.op = "job"
    /\ last.reaction.promise = 0
    /\ Len(last.calls) = 1
    /\ last.calls[1].f = last.reaction.handler
    /\ ~last.calls[1].ret.ok
    /\ last.ret = Ok(Null)
    /\ unhandled = 0

-----------------------------------------------------------------------------
(* C35: the thenable test *)

\* The reads and calls of the `then` property of the promises.
C35_ThenUses(ps) == [q \in 1..Len(ps) |-> <<ps[q].thenReads, ps[q].thenCalls>>]

\* In this step resolve(x) read x.then of the promise x, and called it when
\* the read returned.
C35_ReadsThen(p, x, kind) ==
    /\ promises'[x.n].thenReads = promises[x.n].thenReads + 1
    /\ promises'[x.n].thenCalls =
           promises[x.n].thenCalls + (IF kind = "getThrows" THEN 0 ELSE 1)
    /\ \A q \in Promises \ {x.n} :
           C35_ThenUses(promises')[q] = C35_ThenUses(promises)[q]
    /\ adopted'[p].q = x.n
    /\ Len(fns') > Len(fns)

\* In this step resolve(x) read no `then`, made no pair and fulfilled p with x.
C35_FulfilsWith(p, x) ==
    /\ \A q \in Promises : C35_ThenUses(promises')[q] = C35_ThenUses(promises)[q]
    /\ adopted' = adopted
    /\ fns' = [fns EXCEPT ![last'.k].resolved = TRUE]
    /\ promises'[p].state = "fulfilled"
    /\ promises'[p].result = x
    /\ last'.ret = Ok(Null)

\* C35: resolve(x), its latch unset, reads x.then (and calls what the read
\* returned) if and only if x carries the promise-state slot and is not the
\* target; every other x that is not the target, an object with a callable
\* `then` and no promise-state slot included, fulfils the target
\* synchronously with x itself and x.then is not read.
C35_StructuralThenable ==
    [][(last'.op = "resolve" /\ ~last'.latch /\ last'.arg # PromiseRef(last'.p)) =>
          IF has_promise_state(last'.arg)
          THEN C35_ReadsThen(last'.p, last'.arg, last'.kind)
          ELSE C35_FulfilsWith(last'.p, last'.arg)]_vars

\* C35 witness: resolve was called with an object that has a callable `then`
\* and no promise-state slot, and the target is fulfilled with that object.
C35_Witness ==
    /\ last.op = "resolve"
    /\ ~last.latch
    /\ last.arg = ThenableObject
    /\ promises[last.p].state = "fulfilled"
    /\ promises[last.p].result = ThenableObject
    /\ adopted[last.p].q = 0

\* C35 second case: resolve was called with a promise whose `then` was read
\* and called.
C35_PromiseTaken ==
    /\ last.op = "resolve"
    /\ ~last.latch
    /\ has_promise_state(last.arg)
    /\ last.arg # PromiseRef(last.p)
    /\ promises[last.arg.n].thenCalls = 1
    /\ promises[last.p].state = "pending"

-----------------------------------------------------------------------------
(* C36: the side a settlement does not use *)

\* No reaction of the list was ever enqueued or run.
C36_NeverScheduled(reactions) ==
    ReactionIds(reactions) \cap (JobIds(enqLog) \cup JobIds(execLog) \cup JobIds(jobs)) = {}

\* C36: none of the reject reactions of a fulfilled promise, and none of the
\* fulfil reactions of a rejected promise, is ever enqueued or run; a settled
\* promise holds neither list.
C36_UnusedSideDiscarded ==
    \A p \in Promises :
        /\ promises[p].state = "fulfilled" => C36_NeverScheduled(regLog[p].reject)
        /\ promises[p].state = "rejected" => C36_NeverScheduled(regLog[p].fulfill)
        /\ promises[p].state # "pending"
              => /\ promises[p].fulfillReactions = NullSlot
                 /\ promises[p].rejectReactions = NullSlot

\* C36 witness: a fulfilled promise that had reactions on both sides, its
\* fulfil reactions run and the queue empty again.
C36_Witness ==
    \E p \in Promises :
        /\ promises[p].state = "fulfilled"
        /\ regLog[p].reject # <<>>
        /\ ReactionIds(regLog[p].fulfill) \subseteq JobIds(execLog)
        /\ jobs = <<>>

-----------------------------------------------------------------------------
(* C37: locked-in resolution *)

\* In this step the resolve function of a pending promise P, its latch unset,
\* was called with a pending promise q other than P.
C37_ResolveWithPending ==
    /\ last'.op = "resolve"
    /\ ~last'.latch
    /\ has_promise_state(last'.arg)
    /\ last'.arg # PromiseRef(last'.p)
    /\ promises[last'.p].state = "pending"
    /\ promises[last'.arg.n].state = "pending"

\* When the call returns: P is pending, q.then was called once, with the
\* functions of a fresh pair that targets P, and the pair called is latched.
C37_LockedIn(k, p, q) ==
    /\ last'.ret.ok
    /\ promises'[p].state = "pending"
    /\ promises'[q].thenCalls = promises[q].thenCalls + 1
    /\ Len(fns') > Len(fns)
    /\ fns'[Len(fns) + 1].promise = p
    /\ ~fns'[Len(fns) + 1].resolved
    /\ IF last'.kind = "intrinsic"
       THEN \E i \in 1..Len(promises'[q].fulfillReactions.items) :
               /\ promises'[q].fulfillReactions.items[i].handler = ResolveFn(Len(fns) + 1)
               /\ promises'[q].rejectReactions.items[i].handler = RejectFn(Len(fns) + 1)
       ELSE fns'[Len(fns) + 1].held
    /\ fns'[k].resolved

\* The pairs of p whose latch is unset.
C37_OpenPairs(p) == {k \in Fns : fns[k].promise = p /\ ~fns[k].resolved}

\* A latch stays set, a promise has at most one pair with its latch unset, a
\* call of a latched function changes nothing, and a promise leaves the
\* pending state only in a step that sets the latch of its one open pair.
C37_OnlyThroughOpenPair ==
    /\ \A k \in Fns : fns[k].resolved => fns'[k].resolved
    /\ \A p \in Promises : Cardinality(C37_OpenPairs(p)) <= 1
    /\ (last'.op \in {"resolve", "reject"} /\ last'.latch)
           => /\ promises' = promises
              /\ jobs' = jobs
              /\ fns' = fns
    /\ \A p \in Promises :
           (promises[p].state = "pending" /\ promises'[p].state # "pending")
               => \E k \in C37_OpenPairs(p) : fns'[k].resolved

\* C37 as stated: after resolve(q) on a pending P with a pending promise q, P
\* is pending when the call returns and q.then has been called exactly once
\* with a fresh pair targeting P, whatever q.then is.
C37_AnyThenLocksIn ==
    [][C37_ResolveWithPending
          => C37_LockedIn(last'.k, last'.p, last'.arg.n)]_vars

\* C37 amended: the same for a q whose `then` is read and returns normally
\* when called; and from then on the functions of the pair that was called are
\* no-ops, so P settles only through the fresh pair.
C37_LockedInResolution ==
    [][/\ (C37_ResolveWithPending /\ last'.kind \in {"intrinsic", "callKeeps"})
            => C37_LockedIn(last'.k, last'.p, last'.arg.n)
       /\ C37_OnlyThroughOpenPair]_vars

\* C37 witness: P took the pending q through the intrinsic then, its original
\* pair is latched, and P was then settled by the job of the reaction q.then
\* registered, through the fresh pair.
C37_Witness ==
    \E p \in Promises :
        /\ adopted[p].q # 0
        /\ adopted[p].kind = "intrinsic"
        /\ promises[adopted[p].q].thenCalls = 1
        /\ regLog[adopted[p].q].fulfill # <<>>
        /\ promises[p].state = "fulfilled"
        /\ last.op = "job"
        /\ last.reaction.handler.h = "resolve"
        /\ fns[last.reaction.handler.k].promise = p
        /\ \A k \in Fns : fns[k].promise = p => fns[k].resolved

-----------------------------------------------------------------------------
(* C38: the unreachable!() of trigger_promise_reactions *)

\* The slots a settlement routine writes on p change in this step.
C38_Settles(p) ==
    \/ promises'[p].state # promises[p].state
    \/ promises'[p].result # promises[p].result
    \/ promises'[p].fulfillReactions.tag # promises[p].fulfillReactions.tag
    \/ promises'[p].rejectReactions.tag # promises[p].rejectReactions.tag

\* C38: trigger_promise_reactions is never handed a slot that is not a List:
\* the unreachable!() is never executed, and a settlement routine writes the
\* slots of a promise only while the promise is pending and holds both lists,
\* hence at most once per promise.
C38_UnreachableNeverExecuted ==
    /\ [](~panicked)
    /\ [][\A p \in Promises :
             C38_Settles(p) => /\ promises[p].state = "pending"
                               /\ promises[p].fulfillReactions.tag = "List"
                               /\ promises[p].rejectReactions.tag = "List"
                               /\ promises'[p].state # "pending"]_vars

\* C38 witness: a promise that took another one as a thenable has been
\* settled, jobs have run, and script code has then called a function of a
\* pair that targets it; no unreachable!() was executed.
C38_Witness ==
    /\ last.op \in {"resolve", "reject"}
    /\ last.latch
    /\ promises[last.p].state # "pending"
    /\ adopted[last.p].q # 0
    /\ execLog # <<>>
    /\ Cardinality({k \in Fns : fns[k].promise = last.p}) >= 2
    /\ ~panicked

-----------------------------------------------------------------------------
(* C39: the constructor without arguments *)

\* C39: the constructor called with an empty argument list returns the
\* "executor must be a function" error and does not abort the program.
C39_EmptyArgumentsRefused ==
    (last.op = "new Promise" /\ last.args = <<>>)
        => /\ last.ret = Err(new_error("executor must be a function"))
           /\ ~panicked

-----------------------------------------------------------------------------
(* C40: the scopes of return, break, continue and await *)

\* A statement uses `await` as an operator.
C40_Awaits(st) == \E i \in 1..Len(st.e) : st.e[i] = T("Await")

\* The keywords of the statement are where the claim allows them, for a
\* statement in a function (or not), in a loop of that function (or not), the
\* function being async (or not).
RECURSIVE C40_Allowed(_, _, _, _)
C40_Allowed(st, inFunction, inLoop, inAsync) ==
    CASE st.t = "return" -> inFunction /\ (C40_Awaits(st) => inAsync)
      [] st.t \in {"break", "continue"} -> inLoop
      [] st.t \in {"expr", "let", "const"} -> C40_Awaits(st) => inAsync
      [] st.t \in {"block", "if"} ->
            \A i \in 1..Len(st.body) :
                C40_Allowed(st.body[i], inFunction, inLoop, inAsync)
      [] st.t = "while" ->
            \A i \in 1..Len(st.body) :
                C40_Allowed(st.body[i], inFunction, TRUE, inAsync)
      [] st.t = "function" ->
            \A i \in 1..Len(st.body) : C40_Allowed(st.body[i], TRUE, FALSE, FALSE)
      [] st.t = "async" ->
            \A i \in 1..Len(st.body) : C40_Allowed(st.body[i], TRUE, FALSE, TRUE)

\* C40: a program is parsed if and only if each `return` is in a function
\* body, each `break` and `continue` in a loop body of the same function, and
\* each `await` in the body of an async function, judged by the innermost
\* enclosing function; otherwise the parse fails with UnexpectedToken.
C40_GatingPerFunction ==
    parsed # NotParsed =>
        IF \A i \in 1..Len(source) : C40_Allowed(source[i], FALSE, FALSE, FALSE)
        THEN parsed.ok
        ELSE ~parsed.ok /\ parsed.err = "UnexpectedToken"

=============================================================================
